---------------------------- MODULE Spec2Model ----------------------------
(***************************************************************************)
(* A model of the 4D simulation (4D wave and Indra's net): the lattice     *)
(* generators, the vertex-shader transform and the application state       *)
(* machine (parameters, material uniforms, particle system, import and     *)
(* export, resets, the animation tick).                                    *)
(*                                                                         *)
(* Numbers.  A JavaScript / GLSL number is modelled exactly as a pair      *)
(* <<n, d>>: the rational n/d in lowest terms with d > 0, or, with d = 0,  *)
(* one of the three non-finite values <<1, 0>> (+Infinity), <<-1, 0>>      *)
(* (-Infinity) and <<0, 0>> (NaN).  Rounding of the binary formats is not  *)
(* modelled.  The JavaScript value null is the empty tuple <<>>.           *)
(***************************************************************************)
EXTENDS Integers, Sequences, FiniteSets, TLC

VARIABLES
  gen,       \* the lattice generation in progress (loop counters, output so far)
  shader,    \* the shader call under evaluation: its inputs and, once run, its outputs
  params,    \* const params: SimulationParams
  material,  \* let material: THREE.ShaderMaterial
  points,    \* let points: THREE.Points
  scene,     \* the particle systems and the light meshes the scene holds
  lightMeshes,     \* let lightMeshes: THREE.Mesh[]
  lightPositions,  \* let lightPositions
  gui,       \* the controllers of the GUI
  time, angleXY, angleZW,  \* let time = 0; let angleXY = 0; let angleZW = 0
  overlay,   \* the warning overlay: "shown" or "hidden"
  rafPending,  \* the callbacks of requestAnimationFrame(animate) not yet run
  downloads, \* the files exportParameters has had downloaded, the last one only
  last,      \* the last operation: its name, and whether it raised an error or showed the alert
  ops, ticks \* the numbers of operations and of ticks so far

appVars == <<params, material, points, scene, lightMeshes, lightPositions, gui,
             time, angleXY, angleZW, overlay, rafPending, downloads, last, ops, ticks>>

vars == <<gen, shader, appVars>>

---------------------------------------------------------------------------
(* Arithmetic on numbers *)

Abs(k) == IF k < 0 THEN -k ELSE k

Sign(k) == IF k > 0 THEN 1 ELSE IF k < 0 THEN -1 ELSE 0

RECURSIVE GCD(_, _)
GCD(a, b) == IF b = 0 THEN a ELSE GCD(b, a % b)

\* n/d in lowest terms; n/0 is +Infinity, -Infinity or NaN by the sign of n.
Norm(n, d) ==
  IF d = 0 THEN <<Sign(n), 0>>
  ELSE LET g == GCD(Abs(n), Abs(d)) IN <<(Sign(d) * n) \div g, Abs(d) \div g>>

Num(k) == <<k, 1>>
Frac(n, d) == Norm(n, d)
NaN == <<0, 0>>
Infinity == <<1, 0>>
null == <<>>

IsNumber(a) == Len(a) = 2
IsFinite(a) == Len(a) = 2 /\ a[2] # 0
IsNaN(a) == a = NaN

NumNeg(a) == <<-a[1], a[2]>>

NumMul(a, b) == Norm(a[1] * b[1], a[2] * b[2])

NumDiv(a, b) == NumMul(a, Norm(b[2], b[1]))

NumAdd(a, b) ==
  IF a[2] # 0 /\ b[2] # 0 THEN Norm(a[1] * b[2] + b[1] * a[2], a[2] * b[2])
  ELSE IF a[2] # 0 THEN b
  ELSE IF b[2] # 0 THEN a
  ELSE IF a = b THEN a ELSE NaN

NumSub(a, b) == NumAdd(a, NumNeg(b))

\* a < b; false as soon as one side is NaN.
NumLt(a, b) ==
  /\ ~IsNaN(a) /\ ~IsNaN(b) /\ a # b
  /\ IF a[2] # 0 /\ b[2] # 0 THEN a[1] * b[2] < b[1] * a[2]
     ELSE IF a[2] = 0 THEN a[1] < 0 ELSE b[1] > 0

NumLe(a, b) == NumLt(a, b) \/ (a = b /\ ~IsNaN(a))

---------------------------------------------------------------------------
(* Lattice generation *)

Modes == {"4d-wave", "indras-net"}

\* The least grid size of the GUI's slider.
MinGridSize == 2

\* Indra's net: const spacing = 0.5
spacing == Frac(1, 2)

\* A faulty normalisation: dividing by gridSize instead of gridSize - 1.
waveCoordDivByN(k, gridSize) ==
  NumSub(NumMul(NumDiv(Num(k), gridSize), Num(2)), Num(1))

\* 4D wave: (k / (gridSize - 1)) * 2 - 1
waveCoord(k, gridSize) ==
  NumSub(NumMul(NumDiv(Num(k), NumSub(gridSize, Num(1))), Num(2)), Num(1))

\* Indra's net: (k / (gridSize - 1) - 0.5) * gridSize * spacing
indraCoord(k, gridSize) ==
  NumMul(NumMul(NumSub(NumDiv(Num(k), NumSub(gridSize, Num(1))), Frac(1, 2)),
                gridSize), spacing)

\* A faulty push: the components in the reverse order.
wavePushReversed(x, y, z, w, gridSize) ==
  <<waveCoord(w, gridSize), waveCoord(z, gridSize),
    waveCoord(y, gridSize), waveCoord(x, gridSize)>>

\* positions4D.push(px, py, pz, pw)
wavePush(x, y, z, w, gridSize) ==
  <<waveCoord(x, gridSize), waveCoord(y, gridSize),
    waveCoord(z, gridSize), waveCoord(w, gridSize)>>

\* positions.push(px, py, pz)
indraPush(x, y, z, gridSize) ==
  <<indraCoord(x, gridSize), indraCoord(y, gridSize), indraCoord(z, gridSize)>>

(* The four nested for loops of create4DWaveParticles, each from its counter's
   current value on: the particles it pushes, in order. *)
RECURSIVE waveLoopW(_, _, _, _, _)
waveLoopW(x, y, z, w, gridSize) ==
  IF NumLt(Num(w), gridSize)
  THEN <<wavePush(x, y, z, w, gridSize)>> \o waveLoopW(x, y, z, w + 1, gridSize)
  ELSE <<>>

RECURSIVE waveLoopZ(_, _, _, _)
waveLoopZ(x, y, z, gridSize) ==
  IF NumLt(Num(z), gridSize)
  THEN waveLoopW(x, y, z, 0, gridSize) \o waveLoopZ(x, y, z + 1, gridSize)
  ELSE <<>>

RECURSIVE waveLoopY(_, _, _)
waveLoopY(x, y, gridSize) ==
  IF NumLt(Num(y), gridSize)
  THEN waveLoopZ(x, y, 0, gridSize) \o waveLoopY(x, y + 1, gridSize)
  ELSE <<>>

RECURSIVE waveLoopX(_, _)
waveLoopX(x, gridSize) ==
  IF NumLt(Num(x), gridSize)
  THEN waveLoopY(x, 0, gridSize) \o waveLoopX(x + 1, gridSize)
  ELSE <<>>

\* The base coordinates create4DWaveParticles puts in the position4D attribute.
wavePositions(gridSize) == waveLoopX(0, gridSize)

(* The three nested for loops of createIndrasNetParticles. *)
RECURSIVE indraLoopZ(_, _, _, _)
indraLoopZ(x, y, z, gridSize) ==
  IF NumLt(Num(z), gridSize)
  THEN <<indraPush(x, y, z, gridSize)>> \o indraLoopZ(x, y, z + 1, gridSize)
  ELSE <<>>

RECURSIVE indraLoopY(_, _, _)
indraLoopY(x, y, gridSize) ==
  IF NumLt(Num(y), gridSize)
  THEN indraLoopZ(x, y, 0, gridSize) \o indraLoopY(x, y + 1, gridSize)
  ELSE <<>>

RECURSIVE indraLoopX(_, _)
indraLoopX(x, gridSize) ==
  IF NumLt(Num(x), gridSize)
  THEN indraLoopY(x, 0, gridSize) \o indraLoopX(x + 1, gridSize)
  ELSE <<>>

\* The base coordinates createIndrasNetParticles puts in the position attribute.
indraPositions(gridSize) == indraLoopX(0, gridSize)

(* The same loops run step by step, one step being one iteration of the
   innermost loop body.  gen holds the loop counters, the number of particles
   pushed so far (positions.length over the component count), and the particle
   pushed last together with the counters it was pushed under. *)

counters0 == [x |-> 0, y |-> 0, z |-> 0, w |-> 0]

\* Whether the loops are still running: every loop tests its counter against
\* the same gridSize, and the inner counters restart at 0.
looping(c, gridSize) == NumLt(Num(c.x), gridSize)

\* A faulty innermost loop test: w <= gridSize.
waveAdvanceOffByOne(c, gridSize) ==
  IF NumLe(Num(c.w + 1), gridSize) THEN [c EXCEPT !.w = c.w + 1]
  ELSE IF NumLt(Num(c.z + 1), gridSize) THEN [c EXCEPT !.z = c.z + 1, !.w = 0]
  ELSE IF NumLt(Num(c.y + 1), gridSize) THEN [c EXCEPT !.y = c.y + 1, !.z = 0, !.w = 0]
  ELSE [x |-> c.x + 1, y |-> 0, z |-> 0, w |-> 0]

\* The counters of the next iteration of create4DWaveParticles' innermost body:
\* w++, and each loop that ends steps the loop around it.
waveAdvance(c, gridSize) ==
  IF NumLt(Num(c.w + 1), gridSize) THEN [c EXCEPT !.w = c.w + 1]
  ELSE IF NumLt(Num(c.z + 1), gridSize) THEN [c EXCEPT !.z = c.z + 1, !.w = 0]
  ELSE IF NumLt(Num(c.y + 1), gridSize) THEN [c EXCEPT !.y = c.y + 1, !.z = 0, !.w = 0]
  ELSE [x |-> c.x + 1, y |-> 0, z |-> 0, w |-> 0]

\* The counters of the next iteration of createIndrasNetParticles' innermost body.
indraAdvance(c, gridSize) ==
  IF NumLt(Num(c.z + 1), gridSize) THEN [c EXCEPT !.z = c.z + 1]
  ELSE IF NumLt(Num(c.y + 1), gridSize) THEN [c EXCEPT !.y = c.y + 1, !.z = 0]
  ELSE [x |-> c.x + 1, y |-> 0, z |-> 0, w |-> 0]

genStart(mode, gridSize) ==
  [mode |-> mode, gridSize |-> gridSize, c |-> counters0,
   len |-> 0, last |-> <<>>, at |-> counters0]

---------------------------------------------------------------------------
(* The vertex shader of the 4D wave *)

(* Angles.  sin and cos are evaluated exactly on the angles
   q * (pi/2) + u * phi, phi = atan(3/4), written [q |-> q, u |-> u]:
   cos(phi) = 4/5 and sin(phi) = 3/5, and the values at the other angles
   follow by multiplying the unit complex numbers i and (4 + 3i)/5. *)

angle0 == [q |-> 0, u |-> 0]
quarterTurn == [q |-> 1, u |-> 0]
halfTurn == [q |-> 2, u |-> 0]

angleAdd(a, b) == [q |-> a.q + b.q, u |-> a.u + b.u]

\* The product of two complex numbers <<re, im>>.
cmul(a, b) ==
  <<NumSub(NumMul(a[1], b[1]), NumMul(a[2], b[2])),
    NumAdd(NumMul(a[1], b[2]), NumMul(a[2], b[1]))>>

RECURSIVE cpow(_, _)
cpow(a, k) == IF k = 0 THEN <<Num(1), Num(0)>> ELSE cmul(a, cpow(a, k - 1))

\* cos(angle) + i sin(angle)
cis(angle) ==
  cmul(cpow(<<Num(0), Num(1)>>, angle.q % 4),
       IF angle.u >= 0 THEN cpow(<<Frac(4, 5), Frac(3, 5)>>, angle.u)
       ELSE cpow(<<Frac(4, 5), Frac(-3, 5)>>, -angle.u))

cos(angle) == cis(angle)[1]
sin(angle) == cis(angle)[2]

\* A faulty rotation: z and w come out exchanged.
rotateXYSwapsZW(pos, angle) ==
  LET s == sin(angle)
      c == cos(angle)
  IN <<NumSub(NumMul(c, pos[1]), NumMul(s, pos[2])),
       NumAdd(NumMul(s, pos[1]), NumMul(c, pos[2])),
       pos[4],
       pos[3]>>

\* A faulty rotation: the sign of the sine term of x is wrong.
rotateXYWrongSign(pos, angle) ==
  LET s == sin(angle)
      c == cos(angle)
  IN <<NumAdd(NumMul(c, pos[1]), NumMul(s, pos[2])),
       NumAdd(NumMul(s, pos[1]), NumMul(c, pos[2])),
       pos[3],
       pos[4]>>

\* vec4 rotateXY(vec4 pos, float angle)
rotateXY(pos, angle) ==
  LET s == sin(angle)
      c == cos(angle)
  IN <<NumSub(NumMul(c, pos[1]), NumMul(s, pos[2])),
       NumAdd(NumMul(s, pos[1]), NumMul(c, pos[2])),
       pos[3],
       pos[4]>>

\* A faulty rotation: the cosine factor of w is missing.
rotateZWDropCos(pos, angle) ==
  LET s == sin(angle)
      c == cos(angle)
  IN <<pos[1],
       pos[2],
       NumSub(NumMul(c, pos[3]), NumMul(s, pos[4])),
       NumAdd(NumMul(s, pos[3]), pos[4])>>

\* vec4 rotateZW(vec4 pos, float angle)
rotateZW(pos, angle) ==
  LET s == sin(angle)
      c == cos(angle)
  IN <<pos[1],
       pos[2],
       NumSub(NumMul(c, pos[3]), NumMul(s, pos[4])),
       NumAdd(NumMul(s, pos[3]), NumMul(c, pos[4]))>>

\* A faulty blend: x + y * a.
mixNoComplement(x, y, a) == NumAdd(x, NumMul(y, a))

\* The GLSL built-in mix(x, y, a) = x * (1 - a) + y * a
mix(x, y, a) == NumAdd(NumMul(x, NumSub(Num(1), a)), NumMul(y, a))

\* A faulty blend: t is clamped to [0, 1] first.
mixMatrixClamped(m1, m2, t) ==
  LET c == IF NumLt(t, Num(0)) THEN Num(0) ELSE IF NumLt(Num(1), t) THEN Num(1) ELSE t
  IN [k \in 1..16 |-> mix(m1[k], m2[k], c)]

\* mat4 mixMatrix(mat4 m1, mat4 m2, float t): the four columns mixed, so every
\* element.  A matrix is the 16 elements of THREE.Matrix4, column after column.
mixMatrix(m1, m2, t) == [k \in 1..16 |-> mix(m1[k], m2[k], t)]

\* The GLSL product matrix * vector: row r of the result is the sum over the
\* columns c of m[c][r] * v[c].
matVec(m, v) ==
  [r \in 1..4 |->
     NumAdd(NumAdd(NumMul(m[r], v[1]), NumMul(m[4 + r], v[2])),
            NumAdd(NumMul(m[8 + r], v[3]), NumMul(m[12 + r], v[4])))]

\* function createIdentityMatrix()
createIdentityMatrix ==
  <<Num(1), Num(0), Num(0), Num(0),
    Num(0), Num(1), Num(0), Num(0),
    Num(0), Num(0), Num(1), Num(0),
    Num(0), Num(0), Num(0), Num(1)>>

\* A faulty projection: the projection factor is left out of wFactor.
projectIgnoresFactor(pos4D, u) ==
  LET wFactor == NumAdd(Num(1), pos4D[4])
      projected == [k \in 1..3 |-> NumDiv(pos4D[k], wFactor)]
  IN [wFactor |-> wFactor, projected |-> projected,
      pos3D |-> [k \in 1..3 |-> NumMul(projected[k], u.spread)]]

\* A faulty projection: the point is not scaled by spread.
projectUnscaled(pos4D, u) ==
  LET wFactor == NumAdd(Num(1), NumMul(pos4D[4], u.projectionFactor))
      projected == [k \in 1..3 |-> NumDiv(pos4D[k], wFactor)]
  IN [wFactor |-> wFactor, projected |-> projected, pos3D |-> projected]

\* main, "Project from 4D to 3D" and "Scale the position": wFactor, the point
\* pos4D.xyz / wFactor, and that point times spread.
project(pos4D, u) ==
  LET wFactor == NumAdd(Num(1), NumMul(pos4D[4], u.projectionFactor))
      projected == [k \in 1..3 |-> NumDiv(pos4D[k], wFactor)]
  IN [wFactor |-> wFactor, projected |-> projected,
      pos3D |-> [k \in 1..3 |-> NumMul(projected[k], u.spread)]]

(* The sine of a phase given in radians has no exact value in the rationals:
   plus + times * sin(phase) is kept as the three numbers, and what is known
   of its value is that sin(phase) lies in [-1, 1] when the phase is finite. *)
sinusoid(plus, times, phase) == [plus |-> plus, times |-> times, sinOf |-> phase]

\* length(v): the square root of the sum of the squares, kept as that sum.
length(v) ==
  [sqrtOf |-> NumAdd(NumAdd(NumMul(v[1], v[1]), NumMul(v[2], v[2])),
                     NumAdd(NumMul(v[3], v[3]), NumMul(v[4], v[4])))]

\* A faulty colour field: the sine is not halved.
colorFieldUnscaled(pos4D, u) ==
  LET colorTime == NumMul(u.time, u.colorAnimationSpeed)
      spatial == NumMul(pos4D[4], Num(2))
  IN [vColor |->
        <<sinusoid(Frac(1, 2), Num(1), NumAdd(spatial, colorTime)),
          sinusoid(Frac(1, 2), Num(1), NumAdd(spatial, Frac(2094, 1000))),
          sinusoid(Frac(1, 2), Num(1), NumAdd(spatial, Frac(4189, 1000)))>>,
      vIntensity |->
        sinusoid(Frac(1, 2), Num(1),
                 [dist |-> length(pos4D), times |-> Frac(3, 10), minus |-> colorTime])]

\* main, "Calculate color based on 4D position" and "Calculate intensity":
\* vColor and vIntensity.  The phase of the intensity is
\* dist4D * 0.3 - colorTime, kept as its three parts.
colorField(pos4D, u) ==
  LET colorTime == NumMul(u.time, u.colorAnimationSpeed)
      spatial == NumMul(pos4D[4], Num(2))
  IN [vColor |->
        <<sinusoid(Frac(1, 2), Frac(1, 2), NumAdd(spatial, colorTime)),
          sinusoid(Frac(1, 2), Frac(1, 2), NumAdd(spatial, Frac(2094, 1000))),
          sinusoid(Frac(1, 2), Frac(1, 2), NumAdd(spatial, Frac(4189, 1000)))>>,
      vIntensity |->
        sinusoid(Frac(1, 2), Frac(1, 2),
                 [dist |-> length(pos4D), times |-> Frac(3, 10), minus |-> colorTime])]

\* What main hands on: the transformed 4D point, the projection and the
\* varyings of the colour.
mainOutput(pos4D, u) ==
  LET p == project(pos4D, u)
      c == colorField(pos4D, u)
  IN [pos4D |-> pos4D, wFactor |-> p.wFactor, projected |-> p.projected,
      pos3D |-> p.pos3D, vColor |-> c.vColor, vIntensity |-> c.vIntensity]

\* A faulty main: the rotations are applied before the matrix.
vertexMainRotateFirst(position4D, u) ==
  LET currentMatrix == mixMatrix(u.matrix1, u.matrix2, u.interpolation)
      rotated == rotateZW(rotateXY(position4D, u.angleXY), u.angleZW)
  IN mainOutput(matVec(currentMatrix, rotated), u)

\* void main() of vertexShader, up to the position handed to the camera
\* transform and the varyings handed to the fragment shader.
vertexMain(position4D, u) ==
  LET currentMatrix == mixMatrix(u.matrix1, u.matrix2, u.interpolation)
      transformed == matVec(currentMatrix, position4D)
      rotatedXY == rotateXY(transformed, u.angleXY)
      pos4D == rotateZW(rotatedXY, u.angleZW)
  IN mainOutput(pos4D, u)

(* The fragment shader of Indra's net *)

\* GLSL pow(x, y) for x >= 0 and a whole y >= 0
RECURSIVE pow(_, _)
pow(x, y) == IF y = 0 THEN Num(1) ELSE NumMul(x, pow(x, y - 1))

\* GLSL clamp(x, 0.0, 1.0)
clamp01(x) == IF NumLt(x, Num(0)) THEN Num(0) ELSE IF NumLt(Num(1), x) THEN Num(1) ELSE x

\* GLSL smoothstep(edge0, edge1, x)
smoothstep(edge0, edge1, x) ==
  LET t == clamp01(NumDiv(NumSub(x, edge0), NumSub(edge1, edge0)))
  IN NumMul(NumMul(t, t), NumSub(Num(3), NumMul(Num(2), t)))

\* vec3 mirrorBase = vec3(0.9, 0.9, 0.95)
mirrorBase == <<Frac(9, 10), Frac(9, 10), Frac(19, 20)>>

\* dist * dist for dist = length(a - b) of two vec3
distanceSquared(a, b) ==
  NumAdd(NumAdd(NumMul(NumSub(a[1], b[1]), NumSub(a[1], b[1])),
                NumMul(NumSub(a[2], b[2]), NumSub(a[2], b[2]))),
         NumMul(NumSub(a[3], b[3]), NumSub(a[3], b[3])))

\* A faulty attenuation: a light of unit intensity whatever lightIntensity is.
attenuationUnlit(lightIntensity, distSq) ==
  NumDiv(Num(1), NumAdd(Num(1), NumMul(distSq, Frac(1, 20))))

\* float attenuationK = lightIntensity / (1.0 + distK * distK * 0.05)
attenuation(lightIntensity, distSq) ==
  NumDiv(lightIntensity, NumAdd(Num(1), NumMul(distSq, Frac(1, 20))))

(* void main() of indraFragmentShader on a fragment f at distance f.dist from
   the centre of its point.  The specular factor of light k,
   pow(max(dot(reflectDirK, viewDir), 0.0), 32.0), is built from normalised
   vectors and has no exact value in the rationals: it is the input f.spec[k],
   a number of [0, 1].  The result is whether the fragment is discarded, its
   colour and its alpha. *)
indraFragmentMain(f, u) ==
  LET innerRadius == mix(Frac(35, 100), Frac(48, 100), u.sharpness)
      alpha == NumSub(Num(1), smoothstep(innerRadius, Frac(1, 2), f.dist))
      contribution(k) ==
        LET att == attenuation(u.lightIntensity,
                               distanceSquared(f.vLightPos[k], f.vPosition))
        IN [c \in 1..3 |-> NumMul(NumMul(f.vLightColor[k][c], f.spec[k]), att)]
      reflectedColor ==
        [c \in 1..3 |->
           NumAdd(NumAdd(NumAdd(Num(0), contribution(1)[c]), contribution(2)[c]),
                  contribution(3)[c])]
      centerGlow == pow(NumSub(Num(1), NumMul(f.dist, Num(2))), 16)
      finalColor ==
        [c \in 1..3 |->
           NumAdd(NumMul(mirrorBase[c],
                         NumAdd(Frac(15, 100),
                                NumMul(reflectedColor[c], u.reflectionStrength))),
                  NumMul(NumMul(mirrorBase[c], centerGlow), Frac(8, 10)))]
  IN IF NumLt(Frac(1, 2), f.dist)
     THEN [discarded |-> TRUE, finalColor |-> <<>>, alpha |-> Num(0)]
     ELSE [discarded |-> FALSE, finalColor |-> finalColor,
           alpha |-> NumMul(alpha, u.opacity)]

---------------------------------------------------------------------------
(* The application: parameters, material, particle system, GUI *)

\* const params: SimulationParams = { ... }: the values the page starts with.
defaultParams ==
  [mode |-> "4d-wave", gridSize |-> Num(10),
   rotationSpeedXY |-> Frac(1, 2), rotationSpeedZW |-> Frac(1, 2),
   rotationActiveXY |-> TRUE, rotationActiveZW |-> TRUE,
   particleSize |-> Frac(1, 2), spread |-> Num(3),
   colorIntensity |-> Num(1), colorAnimationSpeed |-> Num(0),
   timeScale |-> Num(1), projectionFactor |-> Frac(3, 20),
   sharpness |-> Num(1), glowIntensity |-> Frac(1, 2),
   blendFactor |-> Num(1), opacity |-> Num(1),
   blendingMode |-> "Normal", depthWrite |-> FALSE,
   matrix1 |-> createIdentityMatrix, matrix2 |-> createIdentityMatrix,
   interpolation |-> Frac(1, 2),
   reflectionStrength |-> Frac(5, 2), reflectionRange |-> Num(5),
   lightIntensity |-> Num(3), lightSpeed |-> Frac(3, 10)]

\* interface SimulationParams: the names of its fields.
SimulationParams == DOMAIN defaultParams

\* function getBlendingMode(mode)
getBlendingMode(mode) ==
  CASE mode = "Normal" -> "NormalBlending"
    [] mode = "Additive" -> "AdditiveBlending"
    [] mode = "Subtractive" -> "SubtractiveBlending"
    [] mode = "Multiply" -> "MultiplyBlending"
    [] OTHER -> "AdditiveBlending"

\* THREE.Matrix4.fromArray(array): reading an element of null raises a
\* TypeError; otherwise the 16 elements are copied.
fromArrayThrows(array) == array = null
fromArray(array) == [k \in 1..16 |-> array[k]]

\* let lightPositions = { light1: new THREE.Vector3(), ... }
vector0 ==
  LET zero == [fn |-> "one", arg |-> Num(0), scale |-> Num(0)] IN <<zero, zero, zero>>
lightPositions0 == [light1 |-> vector0, light2 |-> vector0, light3 |-> vector0]

\* The colours of the three lights, as the material and the visualizers list them.
lightColors ==
  << <<Num(1), Frac(1, 5), Frac(1, 5)>>,
     <<Frac(1, 5), Num(1), Frac(1, 5)>>,
     <<Frac(1, 5), Frac(1, 5), Num(1)>> >>

\* The ShaderMaterial create4DWaveParticles constructs from the parameters p.
waveMaterial(p) ==
  [shader |-> "4d-wave",
   uniforms |->
     [time |-> Num(0), angleXY |-> Num(0), angleZW |-> Num(0),
      particleSize |-> p.particleSize, spread |-> p.spread,
      colorIntensity |-> p.colorIntensity,
      colorAnimationSpeed |-> p.colorAnimationSpeed,
      projectionFactor |-> p.projectionFactor,
      sharpness |-> p.sharpness, glowIntensity |-> p.glowIntensity,
      blendFactor |-> p.blendFactor, opacity |-> p.opacity,
      matrix1 |-> fromArray(p.matrix1), matrix2 |-> fromArray(p.matrix2),
      interpolation |-> p.interpolation],
   depthWrite |-> p.depthWrite,
   blending |-> getBlendingMode(p.blendingMode),
   disposed |-> FALSE]

\* The ShaderMaterial createIndrasNetParticles constructs.  The three
\* lightPosition uniforms hold the vectors of lightPositions themselves, not
\* copies: they are modelled as references, by the name of the vector.
indraMaterial(p) ==
  [shader |-> "indras-net",
   uniforms |->
     [time |-> Num(0),
      lightPosition1 |-> [ref |-> "light1"],
      lightPosition2 |-> [ref |-> "light2"],
      lightPosition3 |-> [ref |-> "light3"],
      lightColor1 |-> lightColors[1], lightColor2 |-> lightColors[2],
      lightColor3 |-> lightColors[3],
      reflectionStrength |-> p.reflectionStrength,
      reflectionRange |-> p.reflectionRange,
      lightIntensity |-> p.lightIntensity,
      sharpness |-> p.sharpness, opacity |-> p.opacity],
   depthWrite |-> FALSE,
   blending |-> "NormalBlending",
   disposed |-> FALSE]

(* A THREE.Points object: the generator that built its geometry and the
   gridSize the generator read, which determine the attribute buffer
   (buffer(p) below), and whether its geometry has been disposed. *)
newPoints(mode, gridSize) == [mode |-> mode, gridSize |-> gridSize, disposed |-> FALSE]

\* The attribute buffer of a Points object: position4D of the 4D wave,
\* position of Indra's net.
buffer(p) ==
  IF p.mode = "4d-wave" THEN wavePositions(p.gridSize) ELSE indraPositions(p.gridSize)

(* Handlers are written as functions from the program state to the program
   state.  The state w is a record of the module-level variables of the
   source (params, material, points, scene, lightMeshes, lightPositions, gui,
   time, angleXY, angleZW), extended with error (an exception is propagating)
   and alert (the alert box was shown). *)

\* throw
Throw(w) == [w EXCEPT !.error = TRUE]

\* scene.remove(object): the first occurrence of the object leaves the list.
RECURSIVE sceneRemove(_, _)
sceneRemove(children, object) ==
  IF children = <<>> THEN <<>>
  ELSE IF Head(children) = object THEN Tail(children)
  ELSE <<Head(children)>> \o sceneRemove(Tail(children), object)

\* function create4DWaveParticles(), from the construction of the material on
\* (the loops are wavePositions).
create4DWaveParticles(w) ==
  IF fromArrayThrows(w.params.matrix1) \/ fromArrayThrows(w.params.matrix2)
  THEN Throw(w)
  ELSE LET p == newPoints("4d-wave", w.params.gridSize)
       IN [w EXCEPT !.material = waveMaterial(w.params),
                    !.points = p,
                    !.scene.points = Append(@, p)]

\* function createIndrasNetParticles(), from the construction of the material
\* on (the loops are indraPositions).
createIndrasNetParticles(w) ==
  LET p == newPoints("indras-net", w.params.gridSize)
  IN [w EXCEPT !.material = indraMaterial(w.params),
               !.points = p,
               !.scene.points = Append(@, p)]

\* function createParticleSystem()
createParticleSystem(w) ==
  IF w.params.mode = "4d-wave" THEN create4DWaveParticles(w)
  ELSE createIndrasNetParticles(w)

\* function removeLightVisualizers().  A light mesh is [id, position]; the
\* scene lists the meshes it holds by id.
RECURSIVE removeMeshes(_, _)
removeMeshes(children, meshes) ==
  IF meshes = <<>> THEN children
  ELSE removeMeshes(sceneRemove(children, Head(meshes).id), Tail(meshes))

removeLightVisualizers(w) ==
  [w EXCEPT !.scene.meshes = removeMeshes(@, w.lightMeshes),
            !.lightMeshes = <<>>]

\* function createLightVisualizers()
createLightVisualizers(w) ==
  LET w1 == removeLightVisualizers(w)
      meshes == [i \in 1..3 |-> [id |-> i, position |-> vector0]]
  IN [w1 EXCEPT !.lightMeshes = @ \o meshes,
                !.scene.meshes = @ \o [i \in 1..3 |-> meshes[i].id]]

\* A faulty regeneration: the accumulated angles are zeroed with it.
recreateZeroesAngles(w) ==
  LET w1 == [w EXCEPT !.scene.points = sceneRemove(@, w.points),
                      !.points.disposed = TRUE,
                      !.material.disposed = TRUE,
                      !.angleXY = Num(0), !.angleZW = Num(0)]
      w2 == createParticleSystem(w1)
  IN IF w2.error THEN w2
     ELSE IF w2.params.mode = "indras-net" THEN createLightVisualizers(w2)
     ELSE removeLightVisualizers(w2)

\* function recreateParticleSystem() (the camera is not modelled)
recreateParticleSystem(w) ==
  LET w1 == [w EXCEPT !.scene.points = sceneRemove(@, w.points),
                      !.points.disposed = TRUE,
                      !.material.disposed = TRUE]
      w2 == createParticleSystem(w1)
  IN IF w2.error THEN w2
     ELSE IF w2.params.mode = "indras-net" THEN createLightVisualizers(w2)
     ELSE removeLightVisualizers(w2)

\* material.uniforms.<name>.value = value, as the handlers write it without
\* testing for the uniform: a material without it makes the read of .value of
\* undefined raise a TypeError.
setUniform(w, name, value) ==
  IF name \in DOMAIN w.material.uniforms
  THEN [w EXCEPT !.material.uniforms[name] = value]
  ELSE Throw(w)

\* if (material.uniforms.<name>) material.uniforms.<name>.value = value
setUniformIfPresent(w, name, value) ==
  IF name \in DOMAIN w.material.uniforms
  THEN [w EXCEPT !.material.uniforms[name] = value]
  ELSE w

\* if (material.uniforms.<name>) material.uniforms.<name>.value.fromArray(array)
fromArrayIfPresent(w, name, array) ==
  IF name \in DOMAIN w.material.uniforms
  THEN IF fromArrayThrows(array) THEN Throw(w)
       ELSE [w EXCEPT !.material.uniforms[name] = fromArray(array)]
  ELSE w

\* The block that copies matrix1, matrix2 and interpolation from params to the
\* uniforms (importParameters, resetRotation, resetToDefault, randomizeParameters).
updateMatrixUniforms(w) ==
  LET w1 == fromArrayIfPresent(w, "matrix1", w.params.matrix1)
      w2 == IF w1.error THEN w1 ELSE fromArrayIfPresent(w1, "matrix2", w1.params.matrix2)
  IN IF w2.error THEN w2
     ELSE setUniformIfPresent(w2, "interpolation", w2.params.interpolation)

\* The controllers of the GUI, in the order createGUI adds them: one per field
\* of params, the two matrix folders and the buttons.
controllersBeforeMatrix1 == {"mode", "gridSize"}
controllersBeforeMatrix2 == controllersBeforeMatrix1 \cup {"matrix1"}
controllersAll ==
  SimulationParams \cup {"resetPosition", "export", "import", "randomize", "reset"}

\* function createGUI(): filling the proxies of a matrix folder reads
\* params.matrix1[index], a TypeError on null, which leaves the GUI with the
\* controllers added so far.
createGUI(w) ==
  IF w.params.matrix1 = null THEN Throw([w EXCEPT !.gui = controllersBeforeMatrix1])
  ELSE IF w.params.matrix2 = null THEN Throw([w EXCEPT !.gui = controllersBeforeMatrix2])
  ELSE [w EXCEPT !.gui = controllersAll]

(* JSON.  A text is [parses, value]: whether JSON.parse accepts it and the
   value it then returns (the literal 1e999 is read as Infinity).
   JSON.stringify writes null for a number that is not finite. *)
NumberFields ==
  SimulationParams \ {"mode", "blendingMode", "rotationActiveXY", "rotationActiveZW",
                      "depthWrite", "matrix1", "matrix2"}
MatrixFields == {"matrix1", "matrix2"}

stringifyNumber(v) == IF IsFinite(v) THEN v ELSE null

JSONstringify(data) ==
  [parses |-> TRUE,
   value |-> [k \in DOMAIN data |->
                IF k \in NumberFields THEN stringifyNumber(data[k])
                ELSE IF k \in MatrixFields /\ data[k] # null
                THEN [i \in DOMAIN data[k] |-> stringifyNumber(data[k][i])]
                ELSE data[k]]]

JSONparseThrows(text) == ~text.parses
JSONparse(text) == text.value

\* Object.assign(target, source)
ObjectAssign(target, source) ==
  [k \in DOMAIN target \cup DOMAIN source |->
     IF k \in DOMAIN source THEN source[k] ELSE target[k]]

\* function exportParameters(): the text of the downloaded file.
exportParameters(w) ==
  JSONstringify([k \in SimulationParams |-> w.params[k]])

\* function importParameters(), the onload handler on the text of the chosen
\* file: everything runs inside try, and catch shows the alert.
importParameters(w, text) ==
  LET w1 == [w EXCEPT !.params = ObjectAssign(@, JSONparse(text))]
      w2 == updateMatrixUniforms(w1)
      w3 == IF w2.error THEN w2 ELSE recreateParticleSystem(w2)
      w4 == IF w3.error THEN w3 ELSE createGUI(w3)
      tried == IF JSONparseThrows(text) THEN Throw(w) ELSE w4
  IN IF tried.error THEN [tried EXCEPT !.error = FALSE, !.alert = TRUE] ELSE tried

\* function resetRotation()
resetRotation(w) ==
  updateMatrixUniforms(
    [w EXCEPT !.angleXY = Num(0), !.angleZW = Num(0),
              !.params.matrix1 = createIdentityMatrix,
              !.params.matrix2 = createIdentityMatrix,
              !.params.interpolation = Frac(1, 2)])

\* A faulty reset: spread keeps its value.
resetToDefaultKeepsSpread(w) ==
  LET w1 == [w EXCEPT !.params =
               [@ EXCEPT !.gridSize = Num(10),
                         !.matrix1 = createIdentityMatrix,
                         !.matrix2 = createIdentityMatrix,
                         !.interpolation = Frac(1, 2),
                         !.rotationSpeedXY = Frac(1, 2),
                         !.rotationSpeedZW = Frac(1, 2),
                         !.rotationActiveXY = TRUE,
                         !.rotationActiveZW = TRUE,
                         !.particleSize = Frac(1, 2),
                         !.colorIntensity = Num(1),
                         !.colorAnimationSpeed = Num(0),
                         !.projectionFactor = Frac(3, 20),
                         !.sharpness = Num(1),
                         !.glowIntensity = Frac(1, 2),
                         !.blendFactor = Num(1),
                         !.opacity = Num(1),
                         !.blendingMode = "Normal",
                         !.depthWrite = FALSE]]
      w2 == updateMatrixUniforms(w1)
      w3 == setUniformIfPresent(w2, "particleSize", w2.params.particleSize)
      w4 == setUniformIfPresent(w3, "spread", w3.params.spread)
      w5 == setUniformIfPresent(w4, "colorIntensity", w4.params.colorIntensity)
      w6 == setUniformIfPresent(w5, "projectionFactor", w5.params.projectionFactor)
  IN recreateParticleSystem([w6 EXCEPT !.angleXY = Num(0), !.angleZW = Num(0)])

\* function resetToDefault()
resetToDefault(w) ==
  LET w1 == [w EXCEPT !.params =
               [@ EXCEPT !.gridSize = Num(10),
                         !.matrix1 = createIdentityMatrix,
                         !.matrix2 = createIdentityMatrix,
                         !.interpolation = Frac(1, 2),
                         !.rotationSpeedXY = Frac(1, 2),
                         !.rotationSpeedZW = Frac(1, 2),
                         !.rotationActiveXY = TRUE,
                         !.rotationActiveZW = TRUE,
                         !.particleSize = Frac(1, 2),
                         !.spread = Num(3),
                         !.colorIntensity = Num(1),
                         !.colorAnimationSpeed = Num(0),
                         !.projectionFactor = Frac(3, 20),
                         !.sharpness = Num(1),
                         !.glowIntensity = Frac(1, 2),
                         !.blendFactor = Num(1),
                         !.opacity = Num(1),
                         !.blendingMode = "Normal",
                         !.depthWrite = FALSE]]
      w2 == updateMatrixUniforms(w1)
      w3 == setUniformIfPresent(w2, "particleSize", w2.params.particleSize)
      w4 == setUniformIfPresent(w3, "spread", w3.params.spread)
      w5 == setUniformIfPresent(w4, "colorIntensity", w4.params.colorIntensity)
      w6 == setUniformIfPresent(w5, "projectionFactor", w5.params.projectionFactor)
  IN recreateParticleSystem([w6 EXCEPT !.angleXY = Num(0), !.angleZW = Num(0)])

\* Guarded writes of several uniforms from the fields of params of the same name.
RECURSIVE setUniformsIfPresent(_, _)
setUniformsIfPresent(w, names) ==
  IF names = <<>> THEN w
  ELSE setUniformsIfPresent(setUniformIfPresent(w, Head(names), w.params[Head(names)]),
                            Tail(names))

\* Math.floor of a number that is finite and not negative
floor(a) == a[1] \div a[2]

\* const blendingModes = ['Normal', 'Additive', 'Subtractive', 'Multiply']
blendingModes == <<"Normal", "Additive", "Subtractive", "Multiply">>

\* function randomizeParameters(); every call of Math.random() returns r.
\* The loop over the matrix entries writes params.matrix1[i] and then
\* params.matrix2[i], a TypeError on null.
randomizeParameters(w, r) ==
  LET entry == NumMul(NumSub(r, Frac(1, 2)), Num(4))
      p == [w.params EXCEPT
              !.matrix1 = [i \in 1..16 |-> entry],
              !.matrix2 = [i \in 1..16 |-> entry],
              !.interpolation = r,
              !.rotationSpeedXY = NumMul(r, Num(2)),
              !.rotationSpeedZW = NumMul(r, Num(2)),
              !.rotationActiveXY = NumLt(Frac(3, 10), r),
              !.rotationActiveZW = NumLt(Frac(3, 10), r),
              !.particleSize = NumAdd(NumMul(r, Num(3)), Frac(1, 5)),
              !.spread = NumAdd(NumMul(r, Num(7)), Num(2)),
              !.colorIntensity = NumAdd(NumMul(r, Frac(3, 2)), Frac(3, 10)),
              !.colorAnimationSpeed = NumMul(r, Frac(3, 2)),
              !.projectionFactor = NumMul(r, Frac(3, 2)),
              !.sharpness = r,
              !.glowIntensity = NumMul(r, Frac(3, 2)),
              !.blendFactor = NumAdd(NumMul(r, Frac(7, 10)), Frac(3, 10)),
              !.opacity = NumAdd(NumMul(r, Frac(1, 2)), Frac(1, 2)),
              !.blendingMode = blendingModes[floor(NumMul(r, Num(Len(blendingModes)))) + 1],
              !.depthWrite = NumLt(Frac(7, 10), r),
              !.reflectionStrength = NumMul(r, Num(5)),
              !.reflectionRange = NumAdd(NumMul(r, Num(8)), Num(2)),
              !.lightIntensity = NumAdd(NumMul(r, Num(4)), Frac(1, 2)),
              !.lightSpeed = NumAdd(NumMul(r, Frac(3, 2)), Frac(1, 5))]
      w1 == updateMatrixUniforms([w EXCEPT !.params = p])
      w2 == setUniformsIfPresent(w1,
              <<"particleSize", "spread", "colorIntensity", "colorAnimationSpeed",
                "projectionFactor", "sharpness", "glowIntensity", "blendFactor",
                "opacity", "reflectionStrength", "reflectionRange", "lightIntensity">>)
  IN IF w.params.matrix1 = null THEN Throw(w)
     ELSE IF w.params.matrix2 = null
     THEN Throw([w EXCEPT !.params.matrix1 = [@ EXCEPT ![1] = entry]])
     ELSE createGUI([w2 EXCEPT !.material.blending = getBlendingMode(p.blendingMode),
                               !.material.depthWrite = p.depthWrite])

(* The onChange handlers of the controllers.  A controller first stores the
   new value in its field of params and then calls its handler. *)

\* Mode and Grid Size
changeLattice(w, name, value) ==
  recreateParticleSystem([w EXCEPT !.params[name] = value])

\* an entry of Matrix 1 or Matrix 2: the write to params.matrixN[index] is
\* part of the handler, a TypeError when the array is null.
changeMatrixEntry(w, name, index, value) ==
  IF w.params[name] = null THEN Throw(w)
  ELSE LET w1 == [w EXCEPT !.params[name] = [@ EXCEPT ![index] = value]]
       IN fromArrayIfPresent(w1, name, w1.params[name])

\* Interpolation and the three uniforms of the Indra's Net folder
changeGuarded(w, name, value) ==
  setUniformIfPresent([w EXCEPT !.params[name] = value], name, value)

\* the sliders of Visual Settings and Particle Appearance
changeUnguarded(w, name, value) ==
  setUniform([w EXCEPT !.params[name] = value], name, value)

\* the controllers without a handler: the rotation toggles and speeds,
\* Time Scale, Light Speed
changePlain(w, name, value) == [w EXCEPT !.params[name] = value]

\* Blending Mode
changeBlendingMode(w, value) ==
  [w EXCEPT !.params.blendingMode = value, !.material.blending = getBlendingMode(value)]

\* Depth Write
changeDepthWrite(w, value) ==
  [w EXCEPT !.params.depthWrite = value, !.material.depthWrite = value]

(* The tick *)

\* The number a value converts to in arithmetic: null becomes 0.
ToNumber(v) == IF v = null THEN Num(0) ELSE v

\* A coordinate of a light: scale * fn(arg), fn one of cos, sin and the
\* constant one (the components of a new THREE.Vector3 are 0 = 0 * one(0)).
term(fn, arg, scale) == [fn |-> fn, arg |-> arg, scale |-> scale]
radius == Num(8)

\* Faulty orbits: the third light moves in step with the first.
orbitsInStep(ts) ==
  [light1 |-> <<term("cos", ts, radius),
                term("sin", NumMul(ts, Frac(7, 10)), NumMul(radius, Frac(1, 2))),
                term("sin", ts, radius)>>,
   light2 |-> <<term("sin", NumMul(ts, Frac(4, 5)), radius),
                term("cos", NumMul(ts, Frac(3, 5)), radius),
                term("cos", NumMul(ts, Frac(4, 5)), NumMul(radius, Frac(7, 10)))>>,
   light3 |-> <<term("sin", ts, NumMul(radius, Frac(4, 5))),
                term("sin", ts, NumMul(radius, Frac(3, 5))),
                term("cos", ts, radius)>>]

\* animate(), "Animate light positions in orbit patterns": the three
\* positions set at ts = time * speed.
orbits(ts) ==
  [light1 |-> <<term("cos", ts, radius),
                term("sin", NumMul(ts, Frac(7, 10)), NumMul(radius, Frac(1, 2))),
                term("sin", ts, radius)>>,
   light2 |-> <<term("sin", NumMul(ts, Frac(4, 5)), radius),
                term("cos", NumMul(ts, Frac(3, 5)), radius),
                term("cos", NumMul(ts, Frac(4, 5)), NumMul(radius, Frac(7, 10)))>>,
   light3 |-> <<term("sin", NumMul(ts, Frac(6, 5)), NumMul(radius, Frac(4, 5))),
                term("sin", ts, NumMul(radius, Frac(3, 5))),
                term("cos", NumMul(ts, Frac(6, 5)), radius)>>]

\* A faulty accumulation: the angle advances whether its plane is active or not.
accumulateAlways(angle, active, delta, speed) ==
  NumAdd(angle, NumMul(delta, ToNumber(speed)))

\* animate(): if (params.rotationActive..) angle.. += delta * params.rotationSpeed..
accumulate(angle, active, delta, speed) ==
  IF active THEN NumAdd(angle, NumMul(delta, ToNumber(speed))) ELSE angle

\* function animate(), without the request of the next frame, the camera and
\* the rendering
animate(w) ==
  LET delta == NumMul(Frac(2, 125), ToNumber(w.params.timeScale))
      t == NumAdd(w.time, delta)
      w1 == [w EXCEPT !.time = t, !.material.uniforms.time = t]
      aXY == accumulate(w.angleXY, w.params.rotationActiveXY, delta,
                        w.params.rotationSpeedXY)
      aZW == accumulate(w.angleZW, w.params.rotationActiveZW, delta,
                        w.params.rotationSpeedZW)
      wave == setUniformIfPresent(
                setUniformIfPresent(
                  setUniformIfPresent([w1 EXCEPT !.angleXY = aXY, !.angleZW = aZW],
                                      "angleXY", aXY),
                  "angleZW", aZW),
                "interpolation", w.params.interpolation)
      lights == orbits(NumMul(t, ToNumber(w.params.lightSpeed)))
      indra ==
        [w1 EXCEPT !.lightPositions = lights,
                   !.lightMeshes =
                      IF Len(@) = 3
                      THEN <<[@[1] EXCEPT !.position = lights.light1],
                             [@[2] EXCEPT !.position = lights.light2],
                             [@[3] EXCEPT !.position = lights.light3]>>
                      ELSE @]
  IN IF w.params.mode = "4d-wave" THEN wave
     ELSE IF w.params.mode = "indras-net" THEN indra
     ELSE w1

(* Construction *)

\* The module-level variables before init() has run.
beforeInit ==
  [params |-> defaultParams, material |-> <<>>, points |-> <<>>,
   scene |-> [points |-> <<>>, meshes |-> <<>>],
   lightMeshes |-> <<>>, lightPositions |-> lightPositions0, gui |-> {},
   time |-> Num(0), angleXY |-> Num(0), angleZW |-> Num(0),
   error |-> FALSE, alert |-> FALSE]

\* A faulty init: the animation is started at once.
initAnimates == animate(createGUI(createParticleSystem(beforeInit)))

\* function init(): createParticleSystem() and createGUI() (the scene, the
\* environment, the resize listener and the mobile controls are not modelled)
init == createGUI(createParticleSystem(beforeInit))

\* The page once init() has returned: the warning is shown and nothing is
\* animated yet.
InitApp ==
  /\ params = init.params
  /\ material = init.material
  /\ points = init.points
  /\ scene = init.scene
  /\ lightMeshes = init.lightMeshes
  /\ lightPositions = init.lightPositions
  /\ gui = init.gui
  /\ time = init.time
  /\ angleXY = init.angleXY
  /\ angleZW = init.angleZW
  /\ overlay = "shown"
  /\ rafPending = 0
  /\ downloads = <<>>
  /\ last = [op |-> "init", arg |-> 0, error |-> init.error, alert |-> init.alert]
  /\ ops = 0
  /\ ticks = 0


---------------------------------------------------------------------------
(* The lattice loops, explored step by step *)

\* The largest grid size the step-by-step runs are explored for (the slider
\* of the GUI goes from 2 to 20).
MaxLatticeGrid == 10

LatticeGridSizes == MinGridSize..MaxLatticeGrid

\* A call of create4DWaveParticles or createIndrasNetParticles begins.
Generate(mode, n) ==
  /\ ~looping(gen.c, gen.gridSize)
  /\ gen' = genStart(mode, Num(n))
  /\ UNCHANGED <<shader, appVars>>

\* One iteration of the innermost loop body of create4DWaveParticles.
PushWave ==
  /\ gen.mode = "4d-wave"
  /\ looping(gen.c, gen.gridSize)
  /\ gen' = [gen EXCEPT !.c = waveAdvance(gen.c, gen.gridSize),
                        !.len = gen.len + 1,
                        !.last = wavePush(gen.c.x, gen.c.y, gen.c.z, gen.c.w, gen.gridSize),
                        !.at = gen.c]
  /\ UNCHANGED <<shader, appVars>>

\* One iteration of the innermost loop body of createIndrasNetParticles.
PushIndra ==
  /\ gen.mode = "indras-net"
  /\ looping(gen.c, gen.gridSize)
  /\ gen' = [gen EXCEPT !.c = indraAdvance(gen.c, gen.gridSize),
                        !.len = gen.len + 1,
                        !.last = indraPush(gen.c.x, gen.c.y, gen.c.z, gen.gridSize),
                        !.at = gen.c]
  /\ UNCHANGED <<shader, appVars>>

\* No shader call: the state of shader while the lattice loops are explored.
shaderIdle == [call |-> "none"]

InitLattice ==
  /\ gen = genStart("4d-wave", Num(MinGridSize))
  /\ shader = shaderIdle
  /\ InitApp

NextLattice ==
  \/ \E mode \in Modes, n \in LatticeGridSizes : Generate(mode, n)
  \/ PushWave
  \/ PushIndra

SpecLattice == InitLattice /\ [][NextLattice]_vars

---------------------------------------------------------------------------
(* Claims about lattice generation, under SpecLattice *)

RECURSIVE Pow(_, _)
Pow(b, e) == IF e = 0 THEN 1 ELSE b * Pow(b, e - 1)

genN == gen.gridSize[1]
genDone == ~looping(gen.c, gen.gridSize)
genDims == IF gen.mode = "4d-wave" THEN 4 ELSE 3

\* C2: when create4DWaveParticles returns it has pushed exactly n^4 coordinates
\* of 4 components, createIndrasNetParticles exactly n^3 of 3 components, and
\* neither has pushed more than that at any point before.
C2_LatticeCounts ==
  /\ gen.len <= Pow(genN, genDims)
  /\ gen.len > 0 => Len(gen.last) = genDims
  /\ genDone => gen.len = Pow(genN, genDims)

C2_Witness ==
  /\ genDone /\ gen.mode = "4d-wave" /\ genN = MaxLatticeGrid
  /\ gen.len = Pow(MaxLatticeGrid, 4)

\* The coordinate the claim gives for axis index k: 2k/(n-1) - 1.
waveAxis(k, n) == Frac(2 * k - (n - 1), n - 1)

\* Indra's net axis index k: (k/(n-1) - 1/2) * n/2.
indraAxis(k, n) == Frac((2 * k - (n - 1)) * n, 4 * (n - 1))

\* C3: the particle at buffer index i is the one of the counters (x, y, z, w)
\* with i = ((x*n + y)*n + z)*n + w in 4D mode and i = (x*n + y)*n + z in 3D
\* mode, and its coordinate is a function of i and n alone.
C3_EnumerationOrder ==
  gen.len > 0 =>
    LET i == gen.len - 1
        n == genN
        a == gen.at
    IN /\ a.x \in 0..(n - 1) /\ a.y \in 0..(n - 1) /\ a.z \in 0..(n - 1)
       /\ a.w \in 0..(n - 1)
       /\ gen.mode = "4d-wave" =>
            /\ i = ((a.x * n + a.y) * n + a.z) * n + a.w
            /\ gen.last = <<waveAxis(i \div (n * n * n), n),
                            waveAxis((i \div (n * n)) % n, n),
                            waveAxis((i \div n) % n, n),
                            waveAxis(i % n, n)>>
       /\ gen.mode = "indras-net" =>
            /\ i = (a.x * n + a.y) * n + a.z
            /\ gen.last = <<indraAxis(i \div (n * n), n),
                            indraAxis((i \div n) % n, n),
                            indraAxis(i % n, n)>>

C3_Witness ==
  /\ gen.mode = "4d-wave" /\ genN = 3 /\ gen.len = 47
  /\ gen.at = [x |-> 1, y |-> 2, z |-> 0, w |-> 1]
  /\ gen.last = <<Num(0), Num(1), Num(-1), Num(0)>>

\* C4: 4D components lie in [-1, 1], are -1 at axis index 0 and +1 at axis
\* index n-1 and neighbours are 2/(n-1) apart; 3D components lie in
\* [-n/4, n/4] and the component at axis index k is minus the one at n-1-k.
C4_AxisRange ==
  gen.len > 0 =>
    LET n == genN
        idx == <<gen.at.x, gen.at.y, gen.at.z, gen.at.w>>
    IN \A j \in 1..genDims :
         LET v == gen.last[j]
             k == idx[j]
         IN /\ gen.mode = "4d-wave" =>
                 /\ NumLe(Num(-1), v) /\ NumLe(v, Num(1))
                 /\ k = 0 => v = Num(-1)
                 /\ k = n - 1 => v = Num(1)
                 /\ k > 0 => NumSub(v, waveCoord(k - 1, gen.gridSize)) = Frac(2, n - 1)
            /\ gen.mode = "indras-net" =>
                 /\ NumLe(Frac(-n, 4), v) /\ NumLe(v, Frac(n, 4))
                 /\ v = NumNeg(indraCoord(n - 1 - k, gen.gridSize))

C4_Witness ==
  /\ gen.mode = "4d-wave" /\ genN = 4 /\ gen.len > 0
  /\ gen.at = [x |-> 0, y |-> 3, z |-> 1, w |-> 2]
  /\ gen.last = <<Num(-1), Num(1), Frac(-1, 3), Frac(1, 3)>>

---------------------------------------------------------------------------
(* The inputs the shader is explored on. *)

\* x += y
shearMatrix == [createIdentityMatrix EXCEPT ![5] = Num(1)]

\* x and w exchanged and scaled, z halved
swapMatrix ==
  <<Num(0), Num(0), Num(0), Num(2),
    Num(0), Num(1), Num(0), Num(0),
    Num(0), Num(0), Frac(1, 2), Num(0),
    Num(-1), Num(0), Num(0), Num(0)>>

SampleMatrices == {createIdentityMatrix, shearMatrix, swapMatrix}

\* Inside the slider's range [0, 1], at its ends and outside it.
SampleInterpolations == {Num(0), Frac(1, 2), Num(1), Num(2), Frac(-1, 4)}

\* The same for the calls of main.
MainInterpolations == {Num(0), Frac(1, 2), Num(2), Frac(-1, 4)}

\* The multiples of phi the angles go up to.
MaxAngleUnits == 1

SampleAngles == {[q |-> q, u |-> u] : q \in 0..3, u \in 0..MaxAngleUnits}

SampleProjections == {Num(0), Frac(3, 20)}

\* Some corners of the hypercube (points of the lattice of grid size 2) and
\* two points off them.
SamplePoints ==
  {wavePositions(Num(2))[i] : i \in {1, 7, 12, 16}}
    \cup {<<Frac(1, 3), Num(-1), Num(0), Frac(1, 2)>>,
          <<Num(0), Num(0), Num(0), Num(0)>>}

\* The projection factors the slider reaches beyond the default: 1 and its
\* upper end 2.
StrongProjections == {Num(1), Num(2)}

\* Elapsed times and colour animation speeds (the slider goes from 0 to 2).
SampleTimes == {Num(0), Frac(2, 125), Num(1)}
SampleColorSpeeds == {Num(0), Frac(1, 2), Num(2)}

\* The calls of main: the transforms at rest in time, the strong projections
\* of the untransformed points, and the colours over time.
mainCalls ==
  [call : {"main"}, ran : {FALSE},
   position4D : SamplePoints,
   u : [matrix1 : SampleMatrices, matrix2 : {createIdentityMatrix, swapMatrix},
        interpolation : MainInterpolations,
        angleXY : SampleAngles, angleZW : {angle0, quarterTurn, [q |-> 0, u |-> 1]},
        projectionFactor : SampleProjections, spread : {Num(3)},
        time : {Num(0)}, colorAnimationSpeed : {Num(0)}]]
  \cup
  [call : {"main"}, ran : {FALSE},
   position4D : SamplePoints,
   u : [matrix1 : {createIdentityMatrix}, matrix2 : {createIdentityMatrix},
        interpolation : {Frac(1, 2)},
        angleXY : {angle0}, angleZW : {angle0},
        projectionFactor : StrongProjections, spread : {Num(1), Num(3)},
        time : {Num(0)}, colorAnimationSpeed : {Num(0)}]]
  \cup
  [call : {"main"}, ran : {FALSE},
   position4D : SamplePoints,
   u : [matrix1 : {createIdentityMatrix}, matrix2 : {swapMatrix},
        interpolation : {Num(0), Frac(1, 2)},
        angleXY : {angle0}, angleZW : {angle0, [q |-> 0, u |-> 1]},
        projectionFactor : {Frac(3, 20)}, spread : {Num(3)},
        time : SampleTimes, colorAnimationSpeed : SampleColorSpeeds]]

\* The angles of the composed rotations: negative ones too.
RotateAngles == {[q |-> q, u |-> u] : q \in 0..3, u \in (-MaxAngleUnits)..MaxAngleUnits}

rotateCalls ==
  [call : {"rotateXY", "rotateZW"}, ran : {FALSE},
   pos : SamplePoints, a : RotateAngles, b : RotateAngles]

\* The vertex shader runs on one particle.
RunMain ==
  /\ shader.call = "main" /\ ~shader.ran
  /\ shader' = [call |-> "main", ran |-> TRUE,
                position4D |-> shader.position4D, u |-> shader.u,
                out |-> vertexMain(shader.position4D, shader.u)]
  /\ UNCHANGED <<gen, appVars>>

\* A rotation by a and then by b, and the one rotation by a + b.
RunRotate ==
  /\ shader.call \in {"rotateXY", "rotateZW"} /\ ~shader.ran
  /\ shader' =
       [call |-> shader.call, ran |-> TRUE,
        pos |-> shader.pos, a |-> shader.a, b |-> shader.b,
        twice |-> IF shader.call = "rotateXY"
                  THEN rotateXY(rotateXY(shader.pos, shader.a), shader.b)
                  ELSE rotateZW(rotateZW(shader.pos, shader.a), shader.b),
        once |-> IF shader.call = "rotateXY"
                 THEN rotateXY(shader.pos, angleAdd(shader.a, shader.b))
                 ELSE rotateZW(shader.pos, angleAdd(shader.a, shader.b))]
  /\ UNCHANGED <<gen, appVars>>

\* The two rotations of main, by a in XY and by b in ZW, on one point.
planeCalls ==
  [call : {"planes"}, ran : {FALSE},
   pos : SamplePoints, a : RotateAngles, b : RotateAngles]

\* Each rotation alone, and the two in both orders.
RunPlanes ==
  /\ shader.call = "planes" /\ ~shader.ran
  /\ shader' =
       [call |-> "planes", ran |-> TRUE,
        pos |-> shader.pos, a |-> shader.a, b |-> shader.b,
        xy |-> rotateXY(shader.pos, shader.a),
        zw |-> rotateZW(shader.pos, shader.b),
        xyThenZW |-> rotateZW(rotateXY(shader.pos, shader.a), shader.b),
        zwThenXY |-> rotateXY(rotateZW(shader.pos, shader.b), shader.a)]
  /\ UNCHANGED <<gen, appVars>>

\* mixMatrix on two matrices and an interpolation value.
mixCalls ==
  [call : {"mixMatrix"}, ran : {FALSE},
   m1 : SampleMatrices, m2 : SampleMatrices, t : SampleInterpolations]

RunMix ==
  /\ shader.call = "mixMatrix" /\ ~shader.ran
  /\ shader' =
       [call |-> "mixMatrix", ran |-> TRUE,
        m1 |-> shader.m1, m2 |-> shader.m2, t |-> shader.t,
        out |-> mixMatrix(shader.m1, shader.m2, shader.t)]
  /\ UNCHANGED <<gen, appVars>>

\* Distances of a fragment from the centre of its point: the centre, the
\* rim, and beyond the rim.
SampleDists == {Num(0), Frac(1, 2), Frac(3, 5)}

\* Values of the specular factor of a light.
SampleSpeculars == {Num(0), Frac(1, 2), Num(1)}

\* Positions of a light, at squared distances 20 and 40 from the particle at
\* the origin.
SampleLightPositions == {<<Num(4), Num(2), Num(0)>>, <<Num(0), Num(-6), Num(2)>>}

\* The light intensities: off, and the default.
SampleLightIntensities == {Num(0), Num(3)}

\* The fragments of a particle of Indra's net at the origin.
fragmentCalls ==
  [call : {"indraFragment"}, ran : {FALSE},
   f : [dist : SampleDists, vPosition : {<<Num(0), Num(0), Num(0)>>},
        vLightPos : [1..3 -> SampleLightPositions],
        vLightColor : {lightColors},
        spec : [1..3 -> SampleSpeculars]],
   u : [sharpness : {Num(1)}, opacity : {Num(1)},
        reflectionStrength : {Frac(5, 2)},
        lightIntensity : SampleLightIntensities]]

\* The fragment shader of Indra's net runs on one fragment.
RunIndraFragment ==
  /\ shader.call = "indraFragment" /\ ~shader.ran
  /\ shader' = [call |-> "indraFragment", ran |-> TRUE,
                f |-> shader.f, u |-> shader.u,
                out |-> indraFragmentMain(shader.f, shader.u)]
  /\ UNCHANGED <<gen, appVars>>

InitShader ==
  /\ gen = genStart("4d-wave", Num(MinGridSize))
  /\ shader \in mainCalls \cup rotateCalls \cup planeCalls \cup mixCalls
                   \cup fragmentCalls
  /\ InitApp

NextShader == RunMain \/ RunRotate \/ RunPlanes \/ RunMix \/ RunIndraFragment

SpecShader == InitShader /\ [][NextShader]_vars

---------------------------------------------------------------------------
(* Claims about the transform, under SpecShader *)

mainRan == shader.call = "main" /\ shader.ran
rotateRan == shader.call \in {"rotateXY", "rotateZW"} /\ shader.ran

\* m1 + t * (m2 - m1), element k
lerpElement(m1, m2, t, k) == NumAdd(m1[k], NumMul(t, NumSub(m2[k], m1[k])))

\* Row r of (the interpolated matrix) * v, written out.
lerpRow(m1, m2, t, v, r) ==
  NumAdd(NumAdd(NumMul(lerpElement(m1, m2, t, r), v[1]),
                NumMul(lerpElement(m1, m2, t, 4 + r), v[2])),
         NumAdd(NumMul(lerpElement(m1, m2, t, 8 + r), v[3]),
                NumMul(lerpElement(m1, m2, t, 12 + r), v[4])))

\* The claim's order: matrix, then XY rotation, then ZW rotation.
matrixThenRotate(base, u) ==
  LET p == [r \in 1..4 |-> lerpRow(u.matrix1, u.matrix2, u.interpolation, base, r)]
      cxy == cos(u.angleXY)
      sxy == sin(u.angleXY)
      czw == cos(u.angleZW)
      szw == sin(u.angleZW)
  IN <<NumSub(NumMul(cxy, p[1]), NumMul(sxy, p[2])),
       NumAdd(NumMul(sxy, p[1]), NumMul(cxy, p[2])),
       NumSub(NumMul(czw, p[3]), NumMul(szw, p[4])),
       NumAdd(NumMul(szw, p[3]), NumMul(czw, p[4]))>>

\* The other order: the rotations first, the matrix after them.
rotateThenMatrix(base, u) ==
  LET cxy == cos(u.angleXY)
      sxy == sin(u.angleXY)
      czw == cos(u.angleZW)
      szw == sin(u.angleZW)
      q == <<NumSub(NumMul(cxy, base[1]), NumMul(sxy, base[2])),
             NumAdd(NumMul(sxy, base[1]), NumMul(cxy, base[2])),
             NumSub(NumMul(czw, base[3]), NumMul(szw, base[4])),
             NumAdd(NumMul(szw, base[3]), NumMul(czw, base[4]))>>
  IN [r \in 1..4 |-> lerpRow(u.matrix1, u.matrix2, u.interpolation, q, r)]

\* C8: the transformed point is rotateZW(rotateXY(M * base, angleXY), angleZW)
\* with M the element-wise interpolation of matrix1 and matrix2, and the
\* perspective division is applied to that point: pos3D = xyz / wFactor * spread
\* with wFactor = 1 + w * projectionFactor.
C8_TransformOrder ==
  mainRan =>
    LET p == matrixThenRotate(shader.position4D, shader.u)
        wf == NumAdd(Num(1), NumMul(p[4], shader.u.projectionFactor))
    IN /\ shader.out.pos4D = p
       /\ shader.out.wFactor = wf
       /\ \A k \in 1..3 :
            shader.out.pos3D[k] = NumMul(NumDiv(p[k], wf), shader.u.spread)

\* An input on which the two orders differ.
C8_Witness ==
  /\ mainRan
  /\ shader.u.matrix1 = shearMatrix /\ shader.u.angleXY = quarterTurn
  /\ shader.out.pos4D = matrixThenRotate(shader.position4D, shader.u)
  /\ shader.out.pos4D # rotateThenMatrix(shader.position4D, shader.u)

\* C9: with both matrices the identity and both angles 0 the transformed
\* point is the base coordinate, for every interpolation value.
C9_Identity ==
  (/\ mainRan
   /\ shader.u.matrix1 = createIdentityMatrix
   /\ shader.u.matrix2 = createIdentityMatrix
   /\ shader.u.angleXY = angle0 /\ shader.u.angleZW = angle0)
  => shader.out.pos4D = shader.position4D

C9_Witness ==
  /\ mainRan
  /\ shader.u.matrix1 = createIdentityMatrix
  /\ shader.u.matrix2 = createIdentityMatrix
  /\ shader.u.angleXY = angle0 /\ shader.u.angleZW = angle0
  /\ shader.u.interpolation = Num(2)
  /\ shader.position4D = <<Frac(1, 3), Num(-1), Num(0), Frac(1, 2)>>
  /\ shader.out.pos4D = shader.position4D

\* C10: rotating by a and then by b in the same plane is rotating by a + b,
\* and two quarter turns negate the rotated pair.
C10_RotationAdditive ==
  rotateRan =>
    /\ shader.twice = shader.once
    /\ (shader.a = quarterTurn /\ shader.b = quarterTurn) =>
         /\ shader.call = "rotateXY" =>
              shader.twice = <<NumNeg(shader.pos[1]), NumNeg(shader.pos[2]),
                               shader.pos[3], shader.pos[4]>>
         /\ shader.call = "rotateZW" =>
              shader.twice = <<shader.pos[1], shader.pos[2],
                               NumNeg(shader.pos[3]), NumNeg(shader.pos[4])>>

C10_Witness ==
  /\ rotateRan /\ shader.call = "rotateXY"
  /\ shader.a = [q |-> 1, u |-> 1] /\ shader.b = [q |-> 0, u |-> 1]
  /\ shader.pos = <<Num(1), Num(-1), Num(1), Num(1)>>
  /\ shader.twice = shader.once
  /\ shader.twice # shader.pos

\* x * x
square(a) == NumMul(a, a)

\* C11: a planar rotation preserves the norm of the pair it rotates: after
\* rotateXY, x^2 + y^2 is what it was, and after rotateZW, z^2 + w^2 is (for
\* the one rotation by a + b and for the two rotations by a and by b).
C11_NormPreserved ==
  rotateRan =>
    LET i == IF shader.call = "rotateXY" THEN 1 ELSE 3
        norm2(p) == NumAdd(square(p[i]), square(p[i + 1]))
    IN /\ norm2(shader.once) = norm2(shader.pos)
       /\ norm2(shader.twice) = norm2(shader.pos)

\* A rotation in the ZW plane by an angle that is no multiple of a quarter
\* turn, of a pair that it moves.
C11_Witness ==
  /\ rotateRan /\ shader.call = "rotateZW"
  /\ shader.a = [q |-> 0, u |-> 1] /\ shader.b = angle0
  /\ shader.pos = <<Frac(1, 3), Num(-1), Num(0), Frac(1, 2)>>
  /\ shader.once[3] # shader.pos[3]
  /\ NumAdd(square(shader.once[3]), square(shader.once[4])) = Frac(1, 4)

planesRan == shader.call = "planes" /\ shader.ran

\* C12: rotateXY leaves z and w as they are and rotateZW leaves x and y as
\* they are, and the two rotations commute: rotateZW after rotateXY gives the
\* point that rotateXY after rotateZW gives.
C12_PlanesCommute ==
  planesRan =>
    /\ shader.xy[3] = shader.pos[3] /\ shader.xy[4] = shader.pos[4]
    /\ shader.zw[1] = shader.pos[1] /\ shader.zw[2] = shader.pos[2]
    /\ shader.xyThenZW = shader.zwThenXY

\* Both rotations move the point, each its own pair.
C12_Witness ==
  /\ planesRan
  /\ shader.pos = <<Frac(1, 3), Num(-1), Num(0), Frac(1, 2)>>
  /\ shader.a = [q |-> 1, u |-> 1] /\ shader.b = [q |-> 0, u |-> -1]
  /\ shader.xy[1] # shader.pos[1] /\ shader.zw[3] # shader.pos[3]
  /\ shader.xyThenZW = <<shader.xy[1], shader.xy[2], shader.zw[3], shader.zw[4]>>

mixRan == shader.call = "mixMatrix" /\ shader.ran

\* C13: the effective matrix is the element-wise linear blend
\* m1 + t * (m2 - m1): it is m1 at t = 0 and m2 at t = 1, and for t outside
\* [0, 1] the blend goes on along the same line (an element in which the two
\* matrices differ then lies outside the interval between them), t being
\* neither rejected nor clamped.
C13_MatrixBlend ==
  mixRan =>
    LET m1 == shader.m1
        m2 == shader.m2
        t == shader.t
    IN /\ \A k \in 1..16 : shader.out[k] = lerpElement(m1, m2, t, k)
       /\ t = Num(0) => shader.out = m1
       /\ t = Num(1) => shader.out = m2
       /\ \A k \in 1..16 :
            (m1[k] # m2[k] /\ (NumLt(t, Num(0)) \/ NumLt(Num(1), t))) =>
              LET lo == IF NumLt(m1[k], m2[k]) THEN m1[k] ELSE m2[k]
                  hi == IF NumLt(m1[k], m2[k]) THEN m2[k] ELSE m1[k]
              IN NumLt(shader.out[k], lo) \/ NumLt(hi, shader.out[k])

\* The blend of the identity and the shear at t = 2: the sheared element,
\* 0 in the identity and 1 in the shear, comes out as 2.
C13_Witness ==
  /\ mixRan
  /\ shader.m1 = createIdentityMatrix /\ shader.m2 = shearMatrix
  /\ shader.t = Num(2)
  /\ \E k \in 1..16 :
       /\ createIdentityMatrix[k] = Num(0) /\ shearMatrix[k] = Num(1)
       /\ shader.out[k] = Num(2)

\* C14: with projectionFactor = 0, wFactor is 1 and the projection returns
\* the x, y, z of the transformed point as they are, whatever its w.
C14_NoProjection ==
  (mainRan /\ shader.u.projectionFactor = Num(0)) =>
    /\ shader.out.wFactor = Num(1)
    /\ shader.out.projected =
         [k \in 1..3 |-> shader.out.pos4D[k]]

\* A point whose transformed w and x are not 0, projected with factor 0.
C14_Witness ==
  /\ mainRan /\ shader.u.projectionFactor = Num(0)
  /\ shader.u.matrix1 = swapMatrix /\ shader.u.interpolation = Num(0)
  /\ shader.out.pos4D[4] = Num(2) /\ shader.out.pos4D[1] # Num(0)
  /\ shader.out.projected[1] = shader.out.pos4D[1]

\* C16: no value that is not finite leaves the projection: where
\* wFactor = 1 + pos4D.w * projectionFactor is 0 the particle is skipped or
\* clamped, so the three coordinates of the projected and scaled point are
\* finite for finite inputs.
C16_ProjectionFinite ==
  mainRan => \A k \in 1..3 : IsFinite(shader.out.pos3D[k])

\* What is known of base + scale * sin(phase): its least and greatest value.
lowest(v) == NumSub(v.plus, IF NumLt(v.times, Num(0)) THEN NumNeg(v.times) ELSE v.times)
highest(v) == NumAdd(v.plus, IF NumLt(v.times, Num(0)) THEN NumNeg(v.times) ELSE v.times)
inUnitInterval(v) == NumLe(Num(0), lowest(v)) /\ NumLe(highest(v), Num(1))

\* C17: the three colour channels and the intensity the vertex stage hands
\* on lie in [0, 1], for every transformed point, time and colour animation
\* speed: each is 0.5 + 0.5 * sin(phase) of a finite phase, not amplified.
C17_ColorInUnitInterval ==
  mainRan =>
    /\ \A k \in 1..3 :
         IsFinite(shader.out.vColor[k].sinOf) /\ inUnitInterval(shader.out.vColor[k])
    /\ IsFinite(shader.out.vIntensity.sinOf.dist.sqrtOf)
    /\ IsFinite(shader.out.vIntensity.sinOf.minus)
    /\ inUnitInterval(shader.out.vIntensity)

\* A transformed point off the origin at a time and a speed that are not 0.
C17_Witness ==
  /\ mainRan
  /\ shader.u.time = Num(1) /\ shader.u.colorAnimationSpeed = Num(2)
  /\ shader.out.pos4D[4] # Num(0)
  /\ shader.out.vColor[1].sinOf # Num(0)
  /\ lowest(shader.out.vColor[1]) = Num(0) /\ highest(shader.out.vIntensity) = Num(1)

\* The offsets of the three channels, as the shader writes 0, 2 pi / 3 and
\* 4 pi / 3.
channelOffset == <<Num(0), Frac(2094, 1000), Frac(4189, 1000)>>

\* C18: the phase of every colour channel is the spatial term plus the
\* temporal term time * colorAnimationSpeed plus the offset of the channel,
\* so that time moves the phases of red, green and blue alike.
C18_ChannelPhases ==
  mainRan =>
    \A k \in 1..3 :
      shader.out.vColor[k].sinOf =
        NumAdd(NumAdd(NumMul(shader.out.pos4D[4], Num(2)),
                      NumMul(shader.u.time, shader.u.colorAnimationSpeed)),
               channelOffset[k])

fragmentRan == shader.call = "indraFragment" /\ shader.ran

\* C19: with lightIntensity = 0 the colour of a fragment of Indra's net is
\* the base term alone, mirrorBase * 0.15 plus the centre glow
\* mirrorBase * (1 - 2 * dist)^16 * 0.8: no light contributes, whatever the
\* positions of the lights and their specular factors.
C19_UnlitIsAmbient ==
  (fragmentRan /\ ~shader.out.discarded /\ shader.u.lightIntensity = Num(0)) =>
    shader.out.finalColor =
      [c \in 1..3 |->
         NumAdd(NumMul(mirrorBase[c], Frac(15, 100)),
                NumMul(NumMul(mirrorBase[c],
                              pow(NumSub(Num(1), NumMul(Num(2), shader.f.dist)), 16)),
                       Frac(8, 10)))]

\* An unlit fragment at the centre whose three lights are at full specular
\* factor, at different places.
C19_Witness ==
  /\ fragmentRan /\ ~shader.out.discarded
  /\ shader.u.lightIntensity = Num(0)
  /\ shader.f.dist = Num(0)
  /\ \A k \in 1..3 : shader.f.spec[k] = Num(1)
  /\ shader.f.vLightPos[1] # shader.f.vLightPos[2]
  /\ shader.out.finalColor[1] = NumAdd(Frac(27, 200), Frac(72, 100))

---------------------------------------------------------------------------
(* The application state machine *)

\* The module-level variables as a handler finds them.
state ==
  [params |-> params, material |-> material, points |-> points, scene |-> scene,
   lightMeshes |-> lightMeshes, lightPositions |-> lightPositions, gui |-> gui,
   time |-> time, angleXY |-> angleXY, angleZW |-> angleZW,
   error |-> FALSE, alert |-> FALSE]

\* A handler has run, to its end or to the error it raised: the variables hold
\* what it left.  arg is the number of the imported file, 0 for the other
\* operations.
Ran(w, op, arg) ==
  /\ params' = w.params
  /\ material' = w.material
  /\ points' = w.points
  /\ scene' = w.scene
  /\ lightMeshes' = w.lightMeshes
  /\ lightPositions' = w.lightPositions
  /\ gui' = w.gui
  /\ time' = w.time
  /\ angleXY' = w.angleXY
  /\ angleZW' = w.angleZW
  /\ last' = [op |-> op, arg |-> arg, error |-> w.error, alert |-> w.alert]

(* Bounds of the exploration *)
MaxOps == 2       \* operations of the user on the GUI, exports apart
MaxTicks == 2     \* calls of animate
MaxChains == 2    \* pending animation frame callbacks
MaxAppGrid == 3   \* the largest grid size chosen on the slider

\* The user operates a controller of the GUI.
Operate(controller, w, arg) ==
  /\ controller \in gui
  /\ ops < MaxOps
  /\ ops' = ops + 1
  /\ Ran(w, controller, arg)
  /\ UNCHANGED <<overlay, rafPending, downloads, ticks, gen, shader>>

(* The values the user gives the controllers: both modes, the grid sizes from
   the least of the slider up, both states of a toggle, the other blending
   modes, and one value of each slider inside its range. *)
sliderValue(name) == IF defaultParams[name] = Num(1) THEN Frac(1, 2) ELSE Num(1)

GridSizes == {Num(n) : n \in MinGridSize..MaxAppGrid}

LatticeControllers == {"mode", "gridSize"}
GuardedControllers ==
  {"interpolation", "reflectionStrength", "reflectionRange", "lightIntensity"}
UnguardedControllers ==
  {"particleSize", "spread", "colorIntensity", "colorAnimationSpeed",
   "projectionFactor", "sharpness", "glowIntensity", "blendFactor", "opacity"}
PlainSliders == {"rotationSpeedXY", "rotationSpeedZW", "timeScale", "lightSpeed"}
PlainToggles == {"rotationActiveXY", "rotationActiveZW"}

\* Mode
ChangeMode ==
  \E value \in Modes :
    /\ value # params.mode
    /\ Operate("mode", changeLattice(state, "mode", value), 0)

\* Grid Size
ChangeGridSize ==
  \E value \in GridSizes :
    /\ value # params.gridSize
    /\ Operate("gridSize", changeLattice(state, "gridSize", value), 0)

\* an entry of Matrix 1 or Matrix 2
MatrixEntries == {2, 16}

ChangeMatrixEntry ==
  \E name \in MatrixFields, index \in MatrixEntries :
    Operate(name, changeMatrixEntry(state, name, index, Frac(1, 2)), 0)

\* Interpolation, Reflection Strength, Reflection Range, Light Intensity
ChangeGuarded ==
  \E name \in GuardedControllers :
    /\ sliderValue(name) # params[name]
    /\ Operate(name, changeGuarded(state, name, sliderValue(name)), 0)

\* the sliders of Visual Settings and Particle Appearance
ChangeUnguarded ==
  \E name \in UnguardedControllers :
    /\ sliderValue(name) # params[name]
    /\ Operate(name, changeUnguarded(state, name, sliderValue(name)), 0)

\* the rotation speeds and toggles, Time Scale, Light Speed
ChangePlain ==
  \/ \E name \in PlainSliders :
       /\ sliderValue(name) # params[name]
       /\ Operate(name, changePlain(state, name, sliderValue(name)), 0)
  \/ \E name \in PlainToggles :
       Operate(name, changePlain(state, name, ~params[name]), 0)

\* Blending Mode
ChangeBlendingMode ==
  \E i \in 1..Len(blendingModes) :
    /\ blendingModes[i] # params.blendingMode
    /\ Operate("blendingMode", changeBlendingMode(state, blendingModes[i]), 0)

\* Depth Write
ChangeDepthWrite ==
  Operate("depthWrite", changeDepthWrite(state, ~params.depthWrite), 0)

\* Reset Position
ResetRotation == Operate("resetPosition", resetRotation(state), 0)

\* Reset to Default
ResetToDefault == Operate("reset", resetToDefault(state), 0)

\* Randomize All
RandomDraws == {Num(0), Frac(1, 2), Frac(9, 10)}

Randomize ==
  \E r \in RandomDraws : Operate("randomize", randomizeParameters(state, r), 0)

\* Export Parameters: the file is downloaded; the program state stays.
Export ==
  /\ "export" \in gui
  /\ downloads' = <<exportParameters(state)>>
  /\ last' = [op |-> "export", arg |-> 0, error |-> FALSE, alert |-> FALSE]
  /\ UNCHANGED <<params, material, points, scene, lightMeshes, lightPositions, gui,
                 time, angleXY, angleZW, overlay, rafPending, ops, ticks, gen, shader>>

(* The files the user picks for import, besides the downloaded one: a text
   that is not JSON, and JSON texts of an object with a null matrix and the
   other mode, with grid size 1, with a spread that overflows to Infinity,
   with every field at a value of its range, and with the smallest lattice
   and no projection. *)
notJson == [parses |-> FALSE, value |-> <<>>]
nullMatrix == [parses |-> TRUE, value |-> [mode |-> "indras-net", matrix1 |-> null]]
gridOne == [parses |-> TRUE, value |-> [gridSize |-> Num(1)]]
hugeSpread == [parses |-> TRUE, value |-> [spread |-> Infinity]]
snapshot ==
  [parses |-> TRUE,
   value |-> [defaultParams EXCEPT !.mode = "indras-net",
                                   !.gridSize = Num(MinGridSize),
                                   !.matrix1 = shearMatrix,
                                   !.interpolation = Num(1),
                                   !.spread = Num(5),
                                   !.lightSpeed = Num(1)]]

flatProjection ==
  [parses |-> TRUE,
   value |-> [gridSize |-> Num(MinGridSize), projectionFactor |-> Num(0)]]

waveNullMatrix == [parses |-> TRUE, value |-> [mode |-> "4d-wave", matrix1 |-> null]]

importFiles ==
  <<notJson, nullMatrix, gridOne, hugeSpread, snapshot, flatProjection, waveNullMatrix>>

\* The text of the file picked: number 0 is the file downloaded last.
fileText(i) == IF i = 0 THEN downloads[1] ELSE importFiles[i]

\* Import Parameters, with the file picked and read
Import ==
  \E i \in 0..Len(importFiles) :
    /\ i = 0 => downloads # <<>>
    /\ Operate("import", importParameters(state, fileText(i)), i)

\* The dismiss button of the warning is clicked: the overlay is hidden and
\* animate() is called, which requests the next frame and runs a tick.
DismissWarning ==
  /\ rafPending < MaxChains
  /\ ticks < MaxTicks
  /\ overlay' = "hidden"
  /\ rafPending' = rafPending + 1
  /\ ticks' = ticks + 1
  /\ Ran(animate(state), "dismiss", 0)
  /\ UNCHANGED <<downloads, ops, gen, shader>>

\* The browser runs a pending callback: animate() requests the next frame
\* and runs a tick.
Frame ==
  /\ rafPending > 0
  /\ ticks < MaxTicks
  /\ ticks' = ticks + 1
  /\ Ran(animate(state), "frame", 0)
  /\ UNCHANGED <<overlay, rafPending, downloads, ops, gen, shader>>

Init ==
  /\ gen = genStart("4d-wave", Num(MinGridSize))
  /\ shader = shaderIdle
  /\ InitApp

Next ==
  \/ ChangeMode
  \/ ChangeGridSize
  \/ ChangeMatrixEntry
  \/ ChangeGuarded
  \/ ChangeUnguarded
  \/ ChangePlain
  \/ ChangeBlendingMode
  \/ ChangeDepthWrite
  \/ ResetRotation
  \/ ResetToDefault
  \/ Randomize
  \/ Export
  \/ Import
  \/ DismissWarning
  \/ Frame

Spec == Init /\ [][Next]_vars

---------------------------------------------------------------------------
(* Claims about the application, under Spec *)

\* The number of particles the lattice of a mode and a grid size n has.
latticeCount(mode, n) == IF mode = "4d-wave" THEN Pow(n, 4) ELSE Pow(n, 3)

\* The particle system in the scene is the one generated for the current
\* params.mode and params.gridSize, and nothing else; for the grid sizes of
\* the slider samples the buffer is counted too.
bufferIsCurrent ==
  /\ scene.points = <<newPoints(params.mode, params.gridSize)>>
  /\ params.gridSize \in GridSizes =>
       Len(buffer(scene.points[1])) = latticeCount(params.mode, params.gridSize[1])

\* A step that runs a tick.
tickRuns == ticks' = ticks + 1

\* C1: every tick starts in a state where the particle buffer in the scene is
\* the complete lattice generated for the current params.mode and
\* params.gridSize, whatever mode switches, grid-size edits, resets,
\* randomizations and imports came before.
C1_TickSeesCurrentLattice == [][tickRuns => bufferIsCurrent]_vars

\* C5: no particle system in the scene was generated with a grid size below 2:
\* its gridSize is at least 2 and (checked on the small grid sizes) every
\* coordinate of its buffer is a finite number.
C5_ResolutionBelowTwoRejected ==
  \A i \in DOMAIN scene.points :
    LET p == scene.points[i] IN
      /\ NumLe(Num(MinGridSize), p.gridSize)
      /\ NumLe(p.gridSize, Num(MaxAppGrid)) =>
           \A k \in DOMAIN buffer(p) : \A c \in DOMAIN buffer(p)[k] :
             IsFinite(buffer(p)[k][c])

\* The ranges of the sliders of the GUI; the matrices' entries lie in [-2, 2].
sliderRange ==
  [gridSize |-> <<Num(2), Num(20)>>,
   rotationSpeedXY |-> <<Num(0), Num(5)>>, rotationSpeedZW |-> <<Num(0), Num(5)>>,
   particleSize |-> <<Frac(1, 10), Num(5)>>, spread |-> <<Num(1), Num(10)>>,
   colorIntensity |-> <<Num(0), Num(2)>>, colorAnimationSpeed |-> <<Num(0), Num(2)>>,
   timeScale |-> <<Num(0), Num(3)>>, projectionFactor |-> <<Num(0), Num(2)>>,
   sharpness |-> <<Num(0), Num(1)>>, glowIntensity |-> <<Num(0), Num(2)>>,
   blendFactor |-> <<Num(0), Num(1)>>, opacity |-> <<Num(0), Num(1)>>,
   interpolation |-> <<Num(0), Num(1)>>,
   reflectionStrength |-> <<Num(0), Num(5)>>, reflectionRange |-> <<Num(1), Num(10)>>,
   lightIntensity |-> <<Num(0), Frac(9, 2)>>, lightSpeed |-> <<Num(0), Num(2)>>]

inRange(v, range) == IsFinite(v) /\ NumLe(range[1], v) /\ NumLe(v, range[2])

validMatrix(m) ==
  /\ m # null
  /\ DOMAIN m = 1..16
  /\ \A k \in 1..16 : inRange(m[k], <<Num(-2), Num(2)>>)

\* A text that holds a valid parameter set: it parses to an object with every
\* field of SimulationParams, each of its type and inside its range.
ValidParameterSet(text) ==
  /\ text.parses
  /\ DOMAIN text.value = SimulationParams
  /\ LET data == text.value IN
       /\ data.mode \in Modes
       /\ \E i \in DOMAIN blendingModes : data.blendingMode = blendingModes[i]
       /\ \A k \in NumberFields : inRange(data[k], sliderRange[k])
       /\ data.gridSize[2] = 1
       /\ validMatrix(data.matrix1)
       /\ validMatrix(data.matrix2)

\* A step that imports the text of file number last'.arg.
importRuns == last'.op = "import" /\ ops' = ops + 1

\* C6: an import of a text that is not a valid parameter set leaves params,
\* the material with its uniforms, and the particle system as they were, and
\* shows the alert.
C6_MalformedImportRejected ==
  [][(importRuns /\ ~ValidParameterSet(fileText(last'.arg))) =>
       /\ params' = params
       /\ material' = material
       /\ points' = points
       /\ scene' = scene
       /\ last'.alert]_vars

\* C7: the file exportParameters writes holds every field of SimulationParams
\* and reads back as the params of the moment of the export, and importing
\* that file, in whatever state, makes params equal to what it reads as:
\* field by field, the state at export time.
C7_ExportImportRoundTrip ==
  [][/\ last'.op = "export" =>
          /\ DOMAIN JSONparse(downloads'[1]) = SimulationParams
          /\ \A k \in SimulationParams : JSONparse(downloads'[1])[k] = params[k]
     /\ (importRuns /\ last'.arg = 0) =>
          \A k \in SimulationParams : params'[k] = JSONparse(downloads[1])[k]]_vars

(* The particle system on the screen *)

\* The value the shader receives for an angle uniform: the program keeps
\* angles in radians, of which the rotations are exact at 0.
angleOf(radians) == CASE radians = Num(0) -> angle0

\* The uniforms of a 4D wave material as the vertex shader reads them.
shaderUniforms(m) ==
  [m.uniforms EXCEPT !.angleXY = angleOf(@), !.angleZW = angleOf(@)]

\* The positions the vertex shader of material m computes for the particles
\* of p, in the order of the buffer.
rendered(p, m) ==
  LET b == buffer(p)
      u == shaderUniforms(m)
  IN [i \in 1..Len(b) |-> vertexMain(b[i], u).pos3D]

\* The scenario: a 4D wave of grid size 2 in the scene, identity matrices,
\* both angles 0, projectionFactor 0.
flatScenario ==
  /\ params.mode = "4d-wave" /\ material.shader = "4d-wave"
  /\ ~material.disposed
  /\ scene.points = <<newPoints("4d-wave", Num(2))>>
  /\ material.uniforms.matrix1 = createIdentityMatrix
  /\ material.uniforms.matrix2 = createIdentityMatrix
  /\ material.uniforms.angleXY = Num(0) /\ material.uniforms.angleZW = Num(0)
  /\ material.uniforms.projectionFactor = Num(0)

\* The x, y, z of the lattice point of grid size 2 at index i, counted from
\* 1, each times the factor s.
latticeXYZ(i, s) ==
  <<NumMul(waveAxis((i - 1) \div 8, 2), s),
    NumMul(waveAxis(((i - 1) \div 4) % 2, 2), s),
    NumMul(waveAxis(((i - 1) \div 2) % 2, 2), s)>>

\* C15, as claimed: in the scenario the 16 positions computed are exactly
\* the x, y, z of the 16 lattice points, in lattice order.
C15_LatticeUnchanged ==
  flatScenario =>
    LET out == rendered(scene.points[1], material)
    IN /\ Len(out) = 16
       /\ \A i \in 1..16 : out[i] = latticeXYZ(i, Num(1))

\* C15, amended: in the scenario the 16 positions computed are exactly
\* spread times the x, y, z of the 16 lattice points, in lattice order, which
\* are the x, y, z themselves at spread = 1.
C15_LatticeScaledBySpread ==
  flatScenario =>
    LET out == rendered(scene.points[1], material)
    IN /\ Len(out) = 16
       /\ \A i \in 1..16 : out[i] = latticeXYZ(i, material.uniforms.spread)
       /\ material.uniforms.spread = Num(1) =>
            \A i \in 1..16 : out[i] = latticeXYZ(i, Num(1))

\* The scenario at spread = 1, with time at 0: the first and the last of the
\* 16 positions are the corners (-1, -1, -1) and (1, 1, 1).
C15_Witness ==
  /\ flatScenario /\ time = Num(0)
  /\ material.uniforms.spread = Num(1)
  /\ LET out == rendered(scene.points[1], material)
     IN /\ out[1] = <<Num(-1), Num(-1), Num(-1)>>
        /\ out[16] = <<Num(1), Num(1), Num(1)>>

(* The lights of Indra's net *)

\* The last step was a tick in indras-net mode.
indraTickRan == last.op \in {"dismiss", "frame"} /\ params.mode = "indras-net"

\* scale * fn(factor * time * speed), a coordinate of a light as a closed
\* form of the time and the speed.
coordinate(fn, factor, scale, t, speed) ==
  [fn |-> fn, arg |-> NumMul(NumMul(t, speed), factor), scale |-> scale]

\* C20: the positions of the three lights a tick uses are a closed form of
\* the elapsed time and params.lightSpeed of that tick alone, whatever came
\* before, the uniforms of the Indra's net material are these very vectors,
\* and the light visualizer meshes are at exactly these positions.
C20_LightsClosedForm ==
  indraTickRan =>
    LET t == time
        s == params.lightSpeed
    IN /\ lightPositions.light1 =
            <<coordinate("cos", Num(1), Num(8), t, s),
              coordinate("sin", Frac(7, 10), Num(4), t, s),
              coordinate("sin", Num(1), Num(8), t, s)>>
       /\ lightPositions.light2 =
            <<coordinate("sin", Frac(8, 10), Num(8), t, s),
              coordinate("cos", Frac(6, 10), Num(8), t, s),
              coordinate("cos", Frac(8, 10), Frac(56, 10), t, s)>>
       /\ lightPositions.light3 =
            <<coordinate("sin", Frac(12, 10), Frac(64, 10), t, s),
              coordinate("sin", Num(1), Frac(48, 10), t, s),
              coordinate("cos", Frac(12, 10), Num(8), t, s)>>
       /\ material.shader = "indras-net" =>
            /\ material.uniforms.lightPosition1 = [ref |-> "light1"]
            /\ material.uniforms.lightPosition2 = [ref |-> "light2"]
            /\ material.uniforms.lightPosition3 = [ref |-> "light3"]
       /\ Len(lightMeshes) \in {0, 3}
       /\ Len(lightMeshes) = 3 =>
            /\ lightMeshes[1].position = lightPositions.light1
            /\ lightMeshes[2].position = lightPositions.light2
            /\ lightMeshes[3].position = lightPositions.light3

\* The second tick, in indras-net mode with the light speed changed on its
\* slider and the three visualizers in the scene.
C20_Witness ==
  /\ indraTickRan /\ ticks = 2
  /\ material.shader = "indras-net" /\ Len(lightMeshes) = 3
  /\ params.lightSpeed = Num(1) /\ time = Frac(4, 125)
  /\ lightMeshes[3].position[1] =
       [fn |-> "sin", arg |-> Frac(24, 625), scale |-> Frac(32, 5)]

(* The rotation angles *)

\* The last step was a tick.
tickRan == last.op \in {"dismiss", "frame"}

\* The step of an angle in one tick: 0.016 * timeScale * speed.
angleStep(speed) == NumMul(NumMul(Frac(16, 1000), params.timeScale), speed)

\* C21: a tick in 4d-wave mode adds 0.016 * timeScale * rotationSpeedXY to
\* angleXY exactly when rotationActiveXY holds and leaves it otherwise, the
\* same for ZW with its own flag and speed, each flag acting on its own
\* plane; a tick in indras-net mode changes neither angle.
C21_AngleAccumulation ==
  [][tickRuns =>
       /\ params.mode = "4d-wave" =>
            /\ angleXY' = IF params.rotationActiveXY
                          THEN NumAdd(angleXY, angleStep(params.rotationSpeedXY))
                          ELSE angleXY
            /\ angleZW' = IF params.rotationActiveZW
                          THEN NumAdd(angleZW, angleStep(params.rotationSpeedZW))
                          ELSE angleZW
       /\ params.mode = "indras-net" =>
            /\ angleXY' = angleXY
            /\ angleZW' = angleZW]_vars

\* After one tick in 4d-wave mode with the XY plane disabled: angleXY is
\* still 0 and angleZW has advanced by 0.016 * 1 * 0.5.
C21_Witness ==
  /\ tickRan /\ ticks = 1 /\ params.mode = "4d-wave"
  /\ ~params.rotationActiveXY /\ params.rotationActiveZW
  /\ angleXY = Num(0) /\ angleZW = Frac(1, 125)

\* A step in which the user runs Reset Position or Reset to Default.
resetRuns == ops' = ops + 1 /\ last'.op \in {"resetPosition", "reset"}

\* timeScale and both rotation speeds are numbers that are not negative.
forwardInTime ==
  \A name \in {"timeScale", "rotationSpeedXY", "rotationSpeedZW"} :
    IsFinite(params[name]) /\ NumLe(Num(0), params[name])

\* C22: the two resets set both angles to 0 and nothing else does: a step
\* that is neither a reset nor a tick (a mode switch, a grid-size change, an
\* edit of a parameter, Randomize All, an import, an export) leaves both
\* angles as they are, and a tick with timeScale and the speeds not negative
\* decreases neither angle.
C22_AnglesResetOnlyByResets ==
  [][/\ resetRuns => (angleXY' = Num(0) /\ angleZW' = Num(0))
     /\ (~resetRuns /\ ~tickRuns) => (angleXY' = angleXY /\ angleZW' = angleZW)
     /\ (tickRuns /\ forwardInTime) =>
          (NumLe(angleXY, angleXY') /\ NumLe(angleZW, angleZW'))]_vars

\* A mode switch after a tick: both angles are what the tick left, not 0.
C22_Witness ==
  /\ last.op = "mode" /\ ~last.error /\ ticks = 1
  /\ params.mode = "indras-net"
  /\ angleXY = Frac(1, 125) /\ angleZW = Frac(1, 125)

(* The particle systems in the scene *)

\* C23: the scene holds exactly one particle system, not disposed, and after
\* a switch of the mode it is the lattice of the new mode at the current grid
\* size (n^3 points of Indra's net after a switch from the 4D wave) with
\* nothing of the former one left.
C23_OneParticleSystem ==
  /\ Len(scene.points) = 1
  /\ ~scene.points[1].disposed
  /\ last.op = "mode" =>
       /\ scene.points = <<newPoints(params.mode, params.gridSize)>>
       /\ params.gridSize \in GridSizes =>
            Len(buffer(scene.points[1])) = latticeCount(params.mode, params.gridSize[1])

(* The animation clock *)

\* C24: at most one requestAnimationFrame chain of animate is pending at
\* any time, whatever the user does, the dismiss button of the warning being
\* activated more than once included: one tick per display refresh.
C24_SingleFrameChain == rafPending <= 1

\* C25: as long as the warning has not been dismissed animate has not run:
\* no tick has happened, no frame is requested, the elapsed time and both
\* angles are 0; and once a tick has happened the overlay is hidden.
C25_NoAnimationBeforeDismiss ==
  /\ overlay = "shown" =>
       /\ ticks = 0 /\ rafPending = 0
       /\ time = Num(0) /\ angleXY = Num(0) /\ angleZW = Num(0)
       /\ material.uniforms.time = Num(0)
  /\ ticks > 0 => overlay = "hidden"

\* The warning is still shown after the user has switched the mode and
\* changed the time scale behind it.
C25_Witness ==
  /\ overlay = "shown" /\ ops = 2
  /\ params.mode = "indras-net" /\ params.timeScale = Frac(1, 2)
  /\ time = Num(0)

(* The uniforms *)

\* The uniforms that mirror the field of params of the same name.
mirroredFields ==
  {"matrix1", "matrix2", "interpolation", "spread", "particleSize",
   "projectionFactor", "colorIntensity", "colorAnimationSpeed", "sharpness",
   "glowIntensity", "blendFactor", "opacity", "reflectionStrength",
   "reflectionRange", "lightIntensity"}

\* Every uniform the material has holds the value it mirrors.
uniformsMirror ==
  LET u == material.uniforms
  IN /\ \A k \in mirroredFields \cap DOMAIN u : u[k] = params[k]
     /\ "angleXY" \in DOMAIN u => u.angleXY = angleXY
     /\ "angleZW" \in DOMAIN u => u.angleZW = angleZW
     /\ "time" \in DOMAIN u => u.time = time

\* C27: at every render, which ends a tick, every uniform of the current
\* material equals the value it mirrors: the angle uniforms the accumulated
\* angles, time the elapsed time, and the others their fields of params,
\* whatever edits, randomizations, resets, imports and regenerations came
\* before.
C27_UniformsMirrorAtRender == tickRan => uniformsMirror

\* C28: an edit of a parameter on the GUI ends without an error in either
\* mode; in particular an edit of a slider of Visual Settings or Particle
\* Appearance in indras-net mode, whose material lacks the uniform, stores
\* the value in params and raises nothing.
C28_EditsRaiseNothing ==
  last.op \in SimulationParams => ~last.error

(* Reset to Default *)

\* The fields of params Reset to Default gives their initial values.
resetFields ==
  {"gridSize", "matrix1", "matrix2", "interpolation", "rotationSpeedXY",
   "rotationSpeedZW", "rotationActiveXY", "rotationActiveZW", "particleSize",
   "spread", "colorIntensity", "colorAnimationSpeed", "projectionFactor",
   "sharpness", "glowIntensity", "blendFactor", "opacity", "blendingMode",
   "depthWrite"}

\* The fields it leaves alone.
keptFields ==
  {"mode", "timeScale", "reflectionStrength", "reflectionRange", "lightIntensity",
   "lightSpeed"}

\* C29: Reset to Default gives the fields of resetFields the values the page
\* starts with, zeroes both angles and puts the lattice of the current mode
\* at grid size 10 in the scene as its only particle system (10^4 particles
\* of the 4D wave, 10^3 of Indra's net), without an error; it leaves mode,
\* timeScale, the three reflection and light parameters, lightSpeed and the
\* elapsed time as they were.
C29_ResetToDefaultFrame ==
  [][(ops' = ops + 1 /\ last'.op = "reset") =>
       /\ ~last'.error
       /\ \A k \in resetFields : params'[k] = defaultParams[k]
       /\ \A k \in keptFields : params'[k] = params[k]
       /\ DOMAIN params' = DOMAIN params
       /\ angleXY' = Num(0) /\ angleZW' = Num(0)
       /\ time' = time
       /\ scene'.points = <<newPoints(params.mode, Num(10))>>
       /\ latticeCount(params.mode, 10) = IF params.mode = "4d-wave" THEN 10000 ELSE 1000]_vars

\* Reset to Default has run in indras-net mode after a tick: the time is
\* what the tick left, the grid size is 10 and the scene holds the 1000
\* particles of Indra's net.
C29_Witness ==
  /\ last.op = "reset" /\ ticks = 1 /\ ops = 2
  /\ params.mode = "indras-net" /\ time = Frac(2, 125)
  /\ params.gridSize = Num(10) /\ angleXY = Num(0)
  /\ Len(scene.points) = 1
  /\ Len(buffer(scene.points[1])) = 1000

(* The light visualizers *)

\* The import of text from w gets as far as its call of
\* recreateParticleSystem().
importRecreates(w, text) ==
  /\ ~JSONparseThrows(text)
  /\ ~updateMatrixUniforms([w EXCEPT !.params = ObjectAssign(@, JSONparse(text))]).error

\* The step is an operation whose handler calls recreateParticleSystem().
recreateRuns ==
  /\ ops' = ops + 1
  /\ \/ last'.op \in {"mode", "gridSize", "reset"}
     \/ last'.op = "import" /\ importRecreates(state, fileText(last'.arg))

\* C30: the scene holds 0 or 3 light visualizer meshes, those of lightMeshes;
\* after every call of recreateParticleSystem() it holds 3 when the mode is
\* indras-net and 0 when it is 4d-wave; a tick moves the meshes only when all
\* 3 exist.
C30_LightMeshes ==
  [][/\ Len(scene'.meshes) \in {0, 3}
     /\ scene'.meshes = [i \in 1..Len(lightMeshes') |-> lightMeshes'[i].id]
     /\ recreateRuns =>
          Len(scene'.meshes) = IF params'.mode = "indras-net" THEN 3 ELSE 0
     /\ (tickRuns /\ lightMeshes' # lightMeshes) =>
          Len(lightMeshes) = 3 /\ Len(lightMeshes') = 3]_vars

---------------------------------------------------------------------------
(* The particle-count version of the generators (src/main.ts) *)

\* gui.add(params, 'particleCount', 50, 8000, 50): the step of the slider,
\* which is its least value too, and the greatest value, the default.
CountStep == 50
DefaultCount == 8000

\* The slider values explored: the first MaxCountSteps ones and the default.
MaxCountSteps == 20
ParticleCounts == {CountStep * i : i \in 1..MaxCountSteps} \cup {DefaultCount}

(* Math.ceil(Math.pow(particleCount, 1/3)).  The double 1/3 is below one
   third, so the power of a perfect cube (1000, 8000) comes out at or just
   below its root and the ceiling is the root; the other multiples of 50 are
   far from a cube.  The result is the least g with g^3 >= particleCount. *)
RECURSIVE ceilCubeRootFrom(_, _)
ceilCubeRootFrom(g, particleCount) ==
  IF g * g * g >= particleCount THEN g ELSE ceilCubeRootFrom(g + 1, particleCount)

ceilCubeRoot(particleCount) == ceilCubeRootFrom(0, particleCount)

\* A faulty test: one entry too many is let through.
fullOffByOne(len, particleCount) == len > particleCount

\* positions.length / 3 >= params.particleCount, positions4D.length / 4 >= ...
full(len, particleCount) == len >= particleCount

\* create4DWaveParticles: the px, py, pz of the counters x, y, z, and pw, the
\* product of the sines of px * PI, py * PI, pz * PI, kept as its arguments.
countPushWave(x, y, z, gridSize) ==
  LET axis(k) == NumSub(NumMul(NumDiv(Num(k), Num(gridSize - 1)), Num(2)), Num(1))
  IN <<axis(x), axis(y), axis(z),
       [sinProduct |-> <<axis(x), axis(y), axis(z)>>]>>

\* createIndrasNetParticles: the px, py, pz of the counters, spacing = 2.0.
countPushIndra(x, y, z, gridSize) ==
  LET axis(k) ==
        NumMul(NumMul(NumSub(NumDiv(Num(k), Num(gridSize - 1)), Frac(1, 2)),
                      Num(gridSize)),
               Num(2))
  IN <<axis(x), axis(y), axis(z)>>

(* The loops after an entry has been pushed at the counters c, the array then
   holding len entries: z++ and, when a loop ends, the test of the loop around
   it (break when the array is full), then its own step.  The result is the
   counters of the next run of the innermost body and whether the loops are
   over. *)
countAdvance(c, gridSize, len, particleCount) ==
  IF c.z + 1 < gridSize THEN [c |-> [c EXCEPT !.z = c.z + 1], done |-> FALSE]
  ELSE IF full(len, particleCount) THEN [c |-> c, done |-> TRUE]
  ELSE IF c.y + 1 < gridSize
  THEN [c |-> [c EXCEPT !.y = c.y + 1, !.z = 0], done |-> FALSE]
  ELSE IF c.x + 1 < gridSize
  THEN [c |-> [x |-> c.x + 1, y |-> 0, z |-> 0], done |-> FALSE]
  ELSE [c |-> c, done |-> TRUE]

\* The generator as it enters its loops.
countStart(mode, particleCount) ==
  [mode |-> mode, particleCount |-> particleCount,
   gridSize |-> ceilCubeRoot(particleCount),
   c |-> [x |-> 0, y |-> 0, z |-> 0], len |-> 0, last |-> <<>>,
   at |-> [x |-> 0, y |-> 0, z |-> 0], done |-> ceilCubeRoot(particleCount) = 0]

\* One run of the innermost loop body of a generator: the break on a full
\* array, which the two outer tests then repeat, or the push of push(x, y, z).
countIterate(g, entry) ==
  IF full(g.len, g.particleCount) THEN [g EXCEPT !.done = TRUE]
  ELSE LET next == countAdvance(g.c, g.gridSize, g.len + 1, g.particleCount)
       IN [g EXCEPT !.c = next.c, !.done = next.done, !.len = g.len + 1,
                    !.last = entry, !.at = g.c]

\* A call of create4DWaveParticles or createIndrasNetParticles begins.
CountGenerate ==
  /\ gen.done
  /\ \E mode \in Modes, particleCount \in ParticleCounts :
       gen' = countStart(mode, particleCount)
  /\ UNCHANGED <<shader, appVars>>

\* One run of the innermost loop body of create4DWaveParticles.
CountWave ==
  /\ gen.mode = "4d-wave" /\ ~gen.done
  /\ gen' = countIterate(gen, countPushWave(gen.c.x, gen.c.y, gen.c.z, gen.gridSize))
  /\ UNCHANGED <<shader, appVars>>

\* One run of the innermost loop body of createIndrasNetParticles.
CountIndra ==
  /\ gen.mode = "indras-net" /\ ~gen.done
  /\ gen' = countIterate(gen, countPushIndra(gen.c.x, gen.c.y, gen.c.z, gen.gridSize))
  /\ UNCHANGED <<shader, appVars>>

InitCount ==
  /\ gen = countStart("4d-wave", CountStep)
  /\ shader = shaderIdle
  /\ InitApp

NextCount == CountGenerate \/ CountWave \/ CountIndra

SpecCount == InitCount /\ [][NextCount]_vars

\* C26: with g = ceil(cuberoot(particleCount)), at no point do the loops
\* hold more than particleCount entries, they end with exactly particleCount,
\* and entry number i (from 0) is the grid point of the counters
\* x = i div g^2, y = (i div g) mod g, z = i mod g: the first particleCount
\* points of the g * g * g grid, x outermost and z innermost.
C26_ExactParticleCount ==
  LET g == gen.gridSize
      n == gen.particleCount
      i == gen.len - 1
  IN /\ (g - 1) * (g - 1) * (g - 1) < n /\ n <= g * g * g
     /\ gen.len <= n
     /\ gen.done => gen.len = n
     /\ gen.len > 0 =>
          /\ gen.at = [x |-> i \div (g * g), y |-> (i \div g) % g, z |-> i % g]
          /\ gen.mode = "4d-wave" =>
               /\ Len(gen.last) = 4
               /\ \A k \in 1..3 :
                    gen.last[k] = Frac(2 * <<gen.at.x, gen.at.y, gen.at.z>>[k] - (g - 1), g - 1)
          /\ gen.mode = "indras-net" =>
               /\ Len(gen.last) = 3
               /\ \A k \in 1..3 :
                    gen.last[k] =
                      Frac((2 * <<gen.at.x, gen.at.y, gen.at.z>>[k] - (g - 1)) * g, g - 1)

\* The Indra's net generator has ended on 950 of the 1000 points of the grid
\* of 10: the last entry is the point of the counters (9, 4, 9).
C26_Witness ==
  /\ gen.done /\ gen.mode = "indras-net"
  /\ gen.particleCount = 950 /\ gen.gridSize = 10
  /\ gen.len = 950 /\ gen.at = [x |-> 9, y |-> 4, z |-> 9]

=============================================================================
